---- MODULE Spec2Model ----
(***************************************************************************)
(* fetchurl: content-addressable HTTP cache.                               *)
(*                                                                         *)
(* Spec        the CAS handler (internal/handler, revision with AppCtx):   *)
(*             concurrent requests, single-flight fill, streaming to the   *)
(*             client, temp file, hash verification and atomic commit in   *)
(*             the local repository.                                       *)
(* SpecClient  the client library Fetcher.Fetch (fetchurl.go).             *)
(***************************************************************************)
EXTENDS Integers, Sequences, FiniteSets, TLC

\* ------------------------------------------------------------------------
\* Bounds of the model
\* ------------------------------------------------------------------------
\* number of concurrent inbound requests
NumReq == 2
\* longest body a source serves
MaxLen == 2
\* bodies are sequences over 1..NumBytes
NumBytes == 2
\* number of distinct digest values of the model hash
HashMod == 2
\* client library: number of configured servers and of direct source URLs
MaxServers == 1
MaxUrls == 2
\* eviction: largest file size and largest configured MaxCacheSize
MaxFileSize == 2
MaxCacheSize == 2
\* eviction: largest MinFreeSpace configured and most free bytes reported
MaxMinFree == 2
\* hashutil: longest name enumerated rune by rune
MaxNameLen == 3

Reqs == 1..NumReq
Bytes == 1..NumBytes

RECURSIVE SeqsUpTo(_, _)
SeqsUpTo(S, n) ==
  IF n = 0 THEN {<<>>}
  ELSE LET shorter == SeqsUpTo(S, n - 1)
       IN  shorter \cup {Append(s, x) : s \in {t \in shorter : Len(t) = n - 1}, x \in S}

Bodies == SeqsUpTo(Bytes, MaxLen)

\* ------------------------------------------------------------------------
\* hashutil: algorithm registry and incremental hashers
\* ------------------------------------------------------------------------
\* names are sequences of characters
UpperCase ==
  <<"A", "B", "C", "D", "E", "F", "G", "H", "I", "J", "K", "L", "M",
    "N", "O", "P", "Q", "R", "S", "T", "U", "V", "W", "X", "Y", "Z">>

LowerCase ==
  <<"a", "b", "c", "d", "e", "f", "g", "h", "i", "j", "k", "l", "m",
    "n", "o", "p", "q", "r", "s", "t", "u", "v", "w", "x", "y", "z">>

DigitChars == {"0", "1", "2", "3", "4", "5", "6", "7", "8", "9"}

\* mutant of MapRune: a rune outside the three ranges is kept
MapRune_KeepOthers(r) ==
  IF \E i \in DOMAIN UpperCase : UpperCase[i] = r
    THEN <<LowerCase[CHOOSE i \in DOMAIN UpperCase : UpperCase[i] = r]>>
  ELSE <<r>>

\* the rune mapping of NormalizeAlgo: <<>> drops the rune
MapRune(r) ==
  IF \E i \in DOMAIN UpperCase : UpperCase[i] = r
    THEN <<LowerCase[CHOOSE i \in DOMAIN UpperCase : UpperCase[i] = r]>>
  ELSE IF r \in DigitChars \/ \E i \in DOMAIN LowerCase : LowerCase[i] = r
    THEN <<r>>
  ELSE <<>>

\* strings.Map over the name
RECURSIVE NormalizeAlgo(_)
NormalizeAlgo(name) ==
  IF name = <<>> THEN <<>> ELSE MapRune(Head(name)) \o NormalizeAlgo(Tail(name))

\* names a caller may put in the algo position
AlgoNames == {<<"S", "H", "A", "-", "2", "5", "6">>, <<"m", "d", "5">>}

registry == {<<"s", "h", "a", "1">>, <<"s", "h", "a", "2", "5", "6">>, <<"s", "h", "a", "5", "1", "2">>}

\* mutant of IsSupported: the name is looked up as given
IsSupported_Raw(name) == name \in registry

IsSupported(name) == NormalizeAlgo(name) \in registry

\* GetHasher: the factory registered under the normalized name, or the
\* "unsupported hash algorithm" error
GetHasher(name) ==
  IF NormalizeAlgo(name) \in registry
    THEN [err |-> FALSE, factory |-> NormalizeAlgo(name)]
    ELSE [err |-> TRUE, factory |-> <<>>]

\* the factory registered under the normalized name; the model hash of each
\* function is a multiplier
HashMult(algo) ==
  LET n == NormalizeAlgo(algo)
  IN  IF n = <<"s", "h", "a", "1">> THEN 2
      ELSE IF n = <<"s", "h", "a", "2", "5", "6">> THEN 3
      ELSE 5

\* hash.Hash: New, Write of one byte, Sum
HasherNew(algo) == 1 % HashMod

HasherWrite(algo, h, x) == (h * HashMult(algo) + x) % HashMod

RECURSIVE HashOf(_, _)
HashOf(algo, body) ==
  IF body = <<>> THEN HasherNew(algo)
  ELSE HasherWrite(algo, HashOf(algo, SubSeq(body, 1, Len(body) - 1)), body[Len(body)])

\* hex.EncodeToString of a digest value: two lowercase hex digits
HexDigit == <<"0", "1", "2", "3", "4", "5", "6", "7", "8", "9", "a", "b", "c", "d", "e", "f">>

HexEncode(h) == <<HexDigit[(h \div 16) + 1], HexDigit[(h % 16) + 1]>>

\* hash strings a request may carry
Hexes == {HexEncode(h) : h \in 0..(HashMod - 1)}

\* ------------------------------------------------------------------------
\* State
\* ------------------------------------------------------------------------
VARIABLES
  upstreams,   \* CASHandler.Upstreams: configured upstream base URLs
  store,       \* LocalRepository: file at each final path {algo}/{shard}/{hash}
  temps,       \* LocalRepository: put-* temp file created by each request
  calls,       \* CASHandler.g: singleflight calls in flight, per key
  req,         \* the inbound requests: handler position, locals, response
  commits,     \* history: number of commits (renames) onto each final path
  cl,          \* the client library: one Fetcher.Fetch call
  ev,          \* eviction: cache directory, LRU strategy, Manager, its tick
  px,          \* the proxy: rules, link rows, cache, the request in hand
  rp,          \* LocalRepository.Put and GetOrFetch: the calls in progress
  js,          \* the JavaScript SDK: one FetchSession and its caller
  ldb,         \* the link database: its rows and the last call made on it
  fs,          \* fetcher.Service: one call of Fetch
  hu           \* hashutil: the name last given to it and what it returned

vars == <<upstreams, store, temps, calls, req, commits, cl, ev, px, rp, js, ldb, fs, hu>>

\* a file of the cache directory
NoFile == [present |-> FALSE, data |-> <<>>]

File(data) == [present |-> TRUE, data |-> data]

\* digests the requests can name: (algo, hash) with a supported algorithm
Digests == ({NormalizeAlgo(a) : a \in AlgoNames} \cap registry) \X Hexes

\* singleflight call record: c.dups counts the callers that joined
NoCall == [active |-> FALSE, dups |-> 0]

\* configured upstream lists
UpstreamConfigs == {<<>>, <<"up1/">>}

\* RFC 8941 list members of an X-Source-Urls header: strings and tokens
SfvString(s) == [kind |-> "string", val |-> s]

SfvToken(s) == [kind |-> "token", val |-> s]

HeaderValues ==
  { <<>>,
    <<SfvToken("s2")>>,
    <<SfvString("s1"), SfvToken("s2")>> }

\* what the transport hands back for one outbound GET.  status 0 is a failed
\* request (Client.Do error); clen is resp.ContentLength (-1 when unknown);
\* data are the bytes the body delivers; err says the body ends with a read
\* error instead of EOF.  The net/http body reader delivers exactly clen
\* bytes before EOF and fails with ErrUnexpectedEOF when the stream is short.
NoResp == [status |-> 0, clen |-> 0, data |-> <<>>, err |-> FALSE]

SourceResponses ==
  {NoResp}
  \cup {[status |-> 500, clen |-> 0, data |-> <<>>, err |-> FALSE]}
  \cup {[status |-> 200, clen |-> -1, data |-> b, err |-> FALSE] : b \in Bodies}
  \cup {[status |-> 200, clen |-> Len(b), data |-> b, err |-> FALSE] : b \in Bodies}
  \cup UNION {{[status |-> 200, clen |-> n, data |-> b, err |-> TRUE] :
                 b \in {x \in Bodies : Len(x) < n}} : n \in 1..MaxLen}

IdleReq ==
  [ pc |-> "idle", method |-> "GET", algo |-> <<>>, hash |-> HexEncode(0),
    hdr |-> <<>>, cand |-> <<>>, srcs |-> <<>>, idx |-> 0,
    hw |-> FALSE, status |-> 0, clen |-> -1, body |-> <<>>, end |-> "open",
    resp |-> NoResp, pos |-> 0, hs |-> 0, sfres |-> "none",
    role |-> "none", fill |-> "none",
    tried |-> <<>>, last |-> "none", gone |-> FALSE ]

\* LocalRepository.getRelPath: {algo}/{shard}/{hash}; a hash shorter than
\* two characters has no shard directory
getRelPath(algo, hash) ==
  IF Len(hash) < 2 THEN <<algo, hash>> ELSE <<algo, SubSeq(hash, 1, 2), hash>>

\* final paths of the cache directory
Paths == {getRelPath(d[1], d[2]) : d \in Digests}

\* error values of the client library: the sentinel or type of the error
\* and, for an HTTPStatusError, its StatusCode
NoErr == [kind |-> "none", code |-> 0]

ErrOf(kind) == [kind |-> kind, code |-> 0]

HTTPStatusError(code) == [kind |-> "HTTPStatusError", code |-> code]

\* the client before Fetch is called; tried lists the requests issued
ClientIdle ==
  [ pc |-> "idle", algo |-> <<>>, hash |-> HexEncode(0), servers |-> 0, urls |-> 0,
    ai |-> 0, out |-> <<>>, N |-> 0, lastErr |-> NoErr,
    ret |-> [kind |-> "pending", cause |-> NoErr],
    resp |-> NoResp, pos |-> 0, hs |-> 0, tried |-> <<>> ]

\* files other than entries that live in the cache root: the link database
\* (NewServer: CacheDir/links.db) and a put-* temp file left by BeginWrite
LinksDb == << <<"l", "i", "n", "k", "s", ".", "d", "b">> >>

PutTemp == << <<"p", "u", "t", "-", "1">> >>

NonEntries == {LinksDb, PutTemp}

\* relative paths of the regular files the cache directory can hold
Files == Paths \cup NonEntries

\* record of the last call made on an LRU by a caller that uses it alone:
\* the call, its arguments, what it returned, the list before it, the keys
\* in the order of their last OnAdd or OnAccess (latest first), and the sum
\* of the differences OnAdd returned less the sizes of the keys removed
NoOp ==
  [ op |-> "none", key |-> <<>>, size |-> 0, target |-> 0, diff |-> 0,
    victims |-> <<>>, before |-> <<>>, order |-> <<>>, total |-> 0 ]

\* what syscall.Statfs reported to the minfree policy: an error, or the
\* free bytes; NoStat when no such policy is configured
NoStat == [err |-> FALSE, free |-> 0]

\* the eviction goroutine at its select.  During RunEviction: current is the
\* value loaded from currentBytes, toFree the maximum over the policies,
\* stat what Statfs reported, delerr whether Delete of the victim in hand
\* returned an error, victims the victims still to go
IdleTick ==
  [pc |-> "idle", current |-> 0, toFree |-> 0, stat |-> NoStat, delerr |-> FALSE,
   victims |-> <<>>]

\* Manager, LRU and cache directory before LoadInitialState.  disk is the set
\* of files present, size their sizes, lru the list (front first), net the
\* bytes currently counted in currentBytes per key (history), ticker the
\* ticks waiting in ticker.C, running the executions of RunEviction in
\* progress, tick the eviction goroutine, w the committing handlers.
\* maxBytes and minFree are the limits of the maxsize and minfree policies
\* (0: the policy is not configured), undeletable the files os.Remove
\* fails on, leaked the keys whose Delete failed (history)
EvStart(disk, size, maxBytes) ==
  [ booted |-> FALSE, disk |-> disk, size |-> size, maxBytes |-> maxBytes,
    minFree |-> 0, undeletable |-> {}, leaked |-> {},
    lru |-> <<>>, currentBytes |-> 0, net |-> [f \in Files |-> 0],
    ticker |-> 0, running |-> 0,
    tick |-> IdleTick,
    w |-> [r \in Reqs |-> [pc |-> "idle", key |-> <<>>, diff |-> 0]],
    h |-> NoOp ]

EvNone == EvStart({}, [f \in Files |-> 1], 1)

\* the JavaScript SDK before a FetchSession is constructed.  attempts,
\* current, done and success are the private fields; servers and sourceUrls
\* the constructor's arguments; yielded the attempts nextAttempt returned,
\* call and ret the last method called and what nextAttempt returned
\* (history), reported the reports made so far (history)
NoAttempt == [url |-> <<>>, headers |-> <<>>]

JsNone ==
  [ phase |-> "none", algo |-> <<>>, hash |-> <<>>, servers |-> <<>>, sourceUrls |-> <<>>,
    attempts |-> <<>>, current |-> 0, done |-> FALSE, success |-> FALSE,
    yielded |-> <<>>, call |-> "none", ret |-> NoAttempt, reported |-> {} ]

\* digests the proxy can be asked for: sha256 from the URL, sha1 from npm
Sha1 == <<"s", "h", "a", "1">>

PxDigests == Digests \cup ({Sha1} \X Hexes)

\* the response handleRequest returns: none (nil: the request goes on to
\* the origin), or the one newResponse builds
NoPxResp == [status |-> 0, body |-> <<>>, cacheControl |-> ""]

\* the proxy with its rules and link rows, no request in hand.  cache is
\* the repository (s.Local); ri and ci the rule and the candidate in turn;
\* ran and results the rules called and what each returned, fetches the
\* calls of s.Fetcher.Fetch, learned the metadata GETs of the learning rule,
\* cands the candidates tried, served the candidate answered and whether it
\* was a hit, before the cache when the request arrived (history)
PxStart(rules, db) ==
  [ pc |-> "idle", rules |-> rules, db |-> db,
    cache |-> [d \in PxDigests |-> NoFile],
    url |-> [site |-> "", dir |-> "", name |-> <<>>], ri |-> 0, ci |-> 0,
    ran |-> <<>>, results |-> <<>>, cands |-> <<>>, fetches |-> <<>>, learned |-> 0,
    served |-> [digest |-> <<>>, hit |-> FALSE], resp |-> NoPxResp,
    before |-> [d \in PxDigests |-> NoFile] ]

PxNone == PxStart(<<>>, {})

\* the link database, empty, with no call made on it yet.  rows is the
\* table urls; op the last call, batch the rows it was given to store,
\* before the table when it was made, url and results the argument and the
\* return value of the multi-algo rule, last the hash of the latest insert
\* that took effect for each URL and algo (history)
DbNone ==
  [ rows |-> {}, op |-> "none", batch |-> {}, before |-> {}, last |-> <<>>,
    url |-> [site |-> "", dir |-> "", name |-> <<>>], err |-> FALSE, results |-> <<>> ]

\* the fetch service before a call of Fetch.  ups are the base URLs of
\* s.Upstreams and urls the queryUrls; answers is what each URL would
\* answer to a GET; i counts the sources gone through, gets lists the URLs
\* a GET was sent to (history); ret is what Fetch returned
FsNone ==
  [ pc |-> "idle", algo |-> <<>>, hash |-> HexEncode(0), ups |-> <<>>, urls |-> <<>>,
    answers |-> <<>>, i |-> 0, gets |-> <<>>,
    ret |-> [err |-> "none", body |-> <<>>, size |-> 0, from |-> <<>>] ]

\* no name given to hashutil yet.  norm is NormalizeAlgo of the name, again
\* NormalizeAlgo of norm, supported and hasher what IsSupported and
\* GetHasher returned for the name
HuNone ==
  [ pc |-> "idle", name |-> <<>>, norm |-> <<>>, again |-> <<>>,
    supported |-> FALSE, hasher |-> [err |-> TRUE, factory |-> <<>>] ]

\* the callers of LocalRepository.Put and GetOrFetch before they call.  err
\* and out are what the call returned; cause names the return statement
\* taken, fetched counts the caller's fetcher invocations, after says
\* whether the final path held a file when the call returned (history)
RpNone ==
  [r \in Reqs |->
     [ pc |-> "idle", op |-> "none", algo |-> <<>>, hash |-> HexEncode(0),
       role |-> "none", reader |-> NoResp, err |-> NoErr, out |-> <<>>,
       cause |-> "none", fetched |-> 0, after |-> FALSE ]]

Init ==
  /\ cl = ClientIdle
  /\ ev = EvNone
  /\ upstreams \in UpstreamConfigs
  /\ store = [p \in Paths |-> NoFile]
  /\ temps = [r \in Reqs |-> NoFile]
  /\ calls = [d \in Digests |-> NoCall]
  /\ req = [r \in Reqs |-> IdleReq]
  /\ commits = [p \in Paths |-> 0]
  /\ px = PxNone
  /\ rp = RpNone
  /\ js = JsNone
  /\ ldb = DbNone
  /\ fs = FsNone
  /\ hu = HuNone

\* ------------------------------------------------------------------------
\* LocalRepository (internal/repository/local.go, sharded revision)
\* ------------------------------------------------------------------------
\* Exists: os.Stat of the final path
Exists(algo, hash) == store[getRelPath(algo, hash)].present

\* Get: the file at the final path (absent: os.Open fails)
Get(algo, hash) == store[getRelPath(algo, hash)]

\* ------------------------------------------------------------------------
\* http.ResponseWriter as the handler uses it
\* ------------------------------------------------------------------------
\* http.Error: status line and plain body, unless headers are already out
HttpError(q, code) ==
  IF q.status = 0 THEN [q EXCEPT !.status = code] ELSE q

\* w.Write of a chunk: refused for HEAD (ErrBodyNotAllowed) and beyond the
\* declared Content-Length (ErrContentLength); it fails when the client of
\* the request has left
WriteOK(q, chunk) ==
  /\ ~q.gone
  /\ q.method # "HEAD"
  /\ q.clen = -1 \/ Len(q.body) + Len(chunk) <= q.clen

\* the handler's locals go out of scope when it ends, and so does the
\* connection
Unwind(q) ==
  [q EXCEPT !.pc = "done", !.cand = <<>>, !.srcs = <<>>, !.idx = 0,
            !.resp = NoResp, !.pos = 0, !.hs = 0, !.last = "none", !.gone = FALSE]

\* the handler returned: the server finishes the response
Return(q) == [Unwind(q) EXCEPT !.end = "returned"]

\* panic(http.ErrAbortHandler) reached the server: connection is aborted
Abort(q) == [Unwind(q) EXCEPT !.end = "aborted"]

\* ------------------------------------------------------------------------
\* CASHandler.ServeHTTP and its helpers
\* ------------------------------------------------------------------------
Methods == {"GET", "HEAD"}

\* parseSourceUrls: the string members of the decoded list, in order
parseSourceUrls(hdr) ==
  LET strs == SelectSeq(hdr, LAMBDA it : it.kind = "string")
  IN  [i \in 1..Len(strs) |-> <<strs[i].val>>]

\* rand.Shuffle: any permutation of the list
Shuffle(seq) ==
  LET n == Len(seq)
      perms == {p \in [1..n -> 1..n] : \A i, j \in 1..n : p[i] = p[j] => i = j}
  IN  {[i \in 1..n |-> seq[p[i]]] : p \in perms}

\* strings.TrimRight(u, "/") on the configured upstream names
TrimRightSlash(u) == IF u = "up1/" THEN "up1" ELSE u

\* the CAS URL of each configured upstream: {base}/api/fetchurl/{algo}/{hash}
UpstreamUrls(algo, hash) ==
  [i \in 1..Len(upstreams) |->
     <<TrimRightSlash(upstreams[i]), "api", "fetchurl", algo>> \o hash]

\* sfKey = algo + ":" + hash
sfKey(algo, hash) == <<algo, hash>>

\* mutant of AfterDo: an error before the headers gets no error reply
AfterDo_NoReply(q, res, shared) ==
  IF res = "panic" THEN Abort(q)
  ELSE IF res = "err" THEN Return(q)
  ELSE IF shared THEN [q EXCEPT !.pc = "serve"]
  ELSE Return(q)

\* mutant of AfterDo: a shared result is served from the cache whatever the
\* error
AfterDo_ServeShared(q, res, shared) ==
  IF res = "panic" THEN Abort(q)
  ELSE IF shared THEN [q EXCEPT !.pc = "serve"]
  ELSE IF res = "err"
    THEN (IF ~q.hw THEN Return(HttpError(q, 502)) ELSE Return(q))
  ELSE Return(q)

\* ServeHTTP after g.Do returned (err, shared): lines 109-125
AfterDo(q, res, shared) ==
  IF res = "panic" THEN Abort(q)
  ELSE IF res = "err"
    THEN (IF ~q.hw THEN Return(HttpError(q, 502)) ELSE Return(q))
  ELSE IF shared THEN [q EXCEPT !.pc = "serve"]
  ELSE Return(q)

\* singleflight doCall finishing with result res for leader r (whose record
\* after the fill step is q): the key is forgotten, every waiter is released
\* with the same result, the leader continues in ServeHTTP
DoReturn(r, q, res) ==
  LET key == sfKey(q.algo, q.hash)
  IN  [x \in Reqs |->
         IF x = r THEN AfterDo([q EXCEPT !.sfres = res], res, calls[key].dups > 0)
         ELSE IF req[x].pc = "waiting" /\ sfKey(req[x].algo, req[x].hash) = key
           THEN [req[x] EXCEPT !.pc = "woken", !.sfres = res]
         ELSE req[x]]

\* mutant of Forget: the record of a finished call stays
Forget_Keep(key) == calls

\* singleflight: g.Do deletes the call of the key when its function ends,
\* by return or by panic (line 104)
Forget(key) == [calls EXCEPT ![key] = NoCall]

\* mutant of CallsAfterLeave: a caller that leaves takes the call with it
CallsAfterLeave_Forget(key) == [calls EXCEPT ![key] = NoCall]

\* singleflight: g.Do takes no context; a blocked caller whose client left
\* stays in the call, and the function runs under h.AppCtx (lines 104-107)
CallsAfterLeave(key) == calls

\* mutant of NoSources: the empty list is not checked
NoSources_Never(srcs) == FALSE

\* len(sourcesToTry) == 0 (line 94)
NoSources(srcs) == Len(srcs) = 0

\* mutant of IsLeader: every caller runs the function itself
IsLeader_Always(key) == TRUE

\* g.Do entered with no call in flight for the key?
IsLeader(key) == ~calls[key].active

\* mutant of RejectResponse: an unknown length is taken as best effort
RejectResponse_StatusOnly(resp) ==
  \/ resp.status = 0
  \/ resp.status # 200

\* tryFetchFromSource: the response is refused before anything is prepared
RejectResponse(resp) ==
  \/ resp.status = 0
  \/ resp.status # 200
  \/ resp.clen = -1

RespKind(resp) ==
  IF resp.status = 0 THEN "neterr"
  ELSE IF resp.status # 200 THEN "status"
  ELSE IF resp.clen = -1 THEN "nolen"
  ELSE "ok"

\* ServeHTTP up to the local cache check (lines 41-67)
Arrive(r) ==
  /\ req[r].pc = "idle"
  /\ \E nparts \in {2, 3}, m \in Methods, raw \in AlgoNames, h \in Hexes, hv \in HeaderValues :
       LET q == [req[r] EXCEPT !.method = m]
           a == NormalizeAlgo(raw)
       IN  req' = [req EXCEPT ![r] =
             IF nparts # 2 THEN Return(HttpError(q, 400))
             ELSE IF ~IsSupported(a) THEN Return(HttpError([q EXCEPT !.algo = a], 400))
             ELSE IF Exists(a, h)
               THEN [q EXCEPT !.algo = a, !.hash = h, !.hdr = hv,
                              !.pc = "serve", !.role = "hit"]
             ELSE [q EXCEPT !.algo = a, !.hash = h, !.hdr = hv,
                            !.pc = "miss", !.role = "miss"]]
  /\ UNCHANGED <<ldb, fs, hu, px, rp, js, ev, cl, upstreams, store, temps, calls, commits>>

\* serveFromCache (lines 128-144)
ServeFromCache(r) ==
  /\ req[r].pc = "serve"
  /\ LET q == req[r]
         f == Get(q.algo, q.hash)
         q1 == IF q.status = 0 THEN [q EXCEPT !.status = 200, !.clen = Len(f.data)] ELSE q
     IN  req' = [req EXCEPT ![r] =
           IF ~f.present THEN Return(HttpError(q, 500))
           ELSE IF WriteOK(q1, f.data) THEN Return([q1 EXCEPT !.body = @ \o f.data])
           ELSE Return(q1)]
  /\ UNCHANGED <<ldb, fs, hu, px, rp, js, ev, cl, upstreams, store, temps, calls, commits>>

\* ServeHTTP from the miss to g.Do (lines 69-107): collect the sources,
\* answer 404 when there is none, else join or start the single flight
FetchMiss(r) ==
  /\ req[r].pc = "miss"
  /\ \E cand \in Shuffle(parseSourceUrls(req[r].hdr)) :
       LET q == req[r]
           srcs == UpstreamUrls(q.algo, q.hash) \o cand
           key == sfKey(q.algo, q.hash)
       IN  IF NoSources(srcs)
             THEN /\ req' = [req EXCEPT ![r] = Return(HttpError(q, 404))]
                  /\ calls' = calls
           ELSE IF IsLeader(key)
             THEN /\ req' = [req EXCEPT ![r] =
                       [q EXCEPT !.pc = "fetch", !.cand = cand, !.srcs = srcs,
                                 !.idx = 1, !.role = "leader", !.fill = "active"]]
                  /\ calls' = [calls EXCEPT ![key] = [active |-> TRUE, dups |-> 0]]
           ELSE /\ req' = [req EXCEPT ![r] = [q EXCEPT !.pc = "waiting", !.role = "follower"]]
                /\ calls' = [calls EXCEPT ![key].dups = @ + 1]
  /\ UNCHANGED <<ldb, fs, hu, px, rp, js, ev, cl, upstreams, store, temps, commits>>

\* tryFetchFromSource up to the start of streaming (lines 160-228): one
\* outbound GET to the current source.  A refused response or a failed
\* BeginWrite returns an error before any header is written and
\* fetchAndStream moves to the next source; otherwise the temp file exists,
\* the headers and 200 are written and streaming starts.
TrySource(r) ==
  /\ req[r].pc = "fetch"
  /\ req[r].idx <= Len(req[r].srcs)
  /\ \E resp \in SourceResponses, tmpOK \in BOOLEAN :
       LET q == [req[r] EXCEPT !.tried = Append(@, req[r].srcs[req[r].idx]),
                               !.last = RespKind(resp)]
       IN  IF RejectResponse(resp)
             THEN /\ req' = [req EXCEPT ![r] = [q EXCEPT !.idx = @ + 1]]
                  /\ temps' = temps
           ELSE IF ~tmpOK
             THEN /\ req' = [req EXCEPT ![r] = [q EXCEPT !.idx = @ + 1, !.last = "notemp"]]
                  /\ temps' = temps
           ELSE /\ req' = [req EXCEPT ![r] =
                     [q EXCEPT !.pc = "stream", !.resp = resp, !.pos = 0,
                               !.hs = HasherNew(q.algo), !.hw = TRUE, !.status = 200,
                               !.clen = IF resp.clen > 0 THEN resp.clen ELSE -1]]
                /\ temps' = [temps EXCEPT ![r] = File(<<>>)]
  /\ UNCHANGED <<ldb, fs, hu, px, rp, js, ev, cl, upstreams, store, calls, commits>>

\* fetchAndStream ran out of sources (line 157): "all sources failed"
AllFailed(r) ==
  /\ req[r].pc = "fetch"
  /\ req[r].idx > Len(req[r].srcs)
  /\ req' = DoReturn(r, [req[r] EXCEPT !.fill = "allfailed"], "err")
  /\ calls' = Forget(sfKey(req[r].algo, req[r].hash))
  /\ UNCHANGED <<ldb, fs, hu, px, rp, js, ev, cl, upstreams, store, temps, commits>>

\* mutant of TempAfter: the temp file is removed on success only
TempAfter_LeakOnError(t, committed) == IF committed THEN NoFile ELSE t

\* the temp file when tryFetchFromSource exits (lines 198-207, 250-254): the
\* commit renamed it to the final path, or the deferred function removed it
TempAfter(t, committed) == NoFile

\* mutant of StopAfterHeaders: the loop goes on to the next source
StopAfterHeaders_Never(headersWritten) == FALSE

\* fetchAndStream after a source returned an error (lines 153-155): it
\* returns when the headers were written, else the loop goes on
StopAfterHeaders(headersWritten) == headersWritten

\* the requests after tryFetchFromSource of leader r returned an error from
\* its streaming part, q being the leader's record at that point
SourceFailed(r, q) ==
  IF StopAfterHeaders(q.hw)
    THEN DoReturn(r, q, "err")
    ELSE [req EXCEPT ![r] = [q EXCEPT !.pc = "fetch", !.idx = @ + 1, !.fill = "active",
                                      !.resp = NoResp, !.pos = 0, !.hs = 0]]

\* the calls in flight after the same error
CallsAfterSourceFailed(q) ==
  IF StopAfterHeaders(q.hw) THEN Forget(sfKey(q.algo, q.hash)) ELSE calls

\* mutant of StreamChunk: a failed client write does not stop the copy
StreamChunk_Detached(r) ==
  /\ req[r].pc = "stream"
  /\ req[r].pos < Len(req[r].resp.data)
  /\ \E gone \in BOOLEAN :
     LET q == req[r]
         x == q.resp.data[q.pos + 1]
     IN  /\ req' = [req EXCEPT ![r] =
               [q EXCEPT !.body = IF WriteOK(q, <<x>>) /\ ~gone THEN Append(@, x) ELSE @,
                         !.pos = @ + 1, !.hs = HasherWrite(q.algo, @, x)]]
         /\ temps' = [temps EXCEPT ![r] = File(Append(@.data, x))]
         /\ calls' = calls
  /\ UNCHANGED <<ldb, fs, hu, px, rp, js, ev, cl, upstreams, store, commits>>

\* io.Copy(mw, resp.Body), one byte: MultiWriter(w, tmpFile, hasher) writes
\* to the client first; a client write that is refused, or that fails
\* because the leader's client is gone, fails the copy
StreamChunk(r) ==
  /\ req[r].pc = "stream"
  /\ req[r].pos < Len(req[r].resp.data)
  /\ \E gone \in BOOLEAN :
     LET q == req[r]
         x == q.resp.data[q.pos + 1]
     IN  IF WriteOK(q, <<x>>) /\ ~gone
           THEN /\ req' = [req EXCEPT ![r] =
                     [q EXCEPT !.body = Append(@, x), !.pos = @ + 1,
                               !.hs = HasherWrite(q.algo, @, x)]]
                /\ temps' = [temps EXCEPT ![r] = File(Append(@.data, x))]
                /\ calls' = calls
         ELSE /\ req' = SourceFailed(r, [q EXCEPT !.fill = "writeerr"])
              /\ temps' = [temps EXCEPT ![r] = TempAfter(temps[r], FALSE)]
              /\ calls' = CallsAfterSourceFailed(q)
  /\ UNCHANGED <<ldb, fs, hu, px, rp, js, ev, cl, upstreams, store, commits>>

\* the body read fails (lines 232-235): "streaming failed", the deferred
\* cleanup removes the temp file, the error goes back through g.Do
ReadError(r) ==
  /\ req[r].pc = "stream"
  /\ req[r].pos = Len(req[r].resp.data)
  /\ req[r].resp.err
  /\ req' = SourceFailed(r, [req[r] EXCEPT !.fill = "readerr"])
  /\ temps' = [temps EXCEPT ![r] = TempAfter(temps[r], FALSE)]
  /\ calls' = CallsAfterSourceFailed(req[r])
  /\ UNCHANGED <<ldb, fs, hu, px, rp, js, ev, cl, upstreams, store, commits>>

\* mutant of Verdict: the digest is not compared
Verdict_NoHashCheck(q, commitOK) ==
  IF q.resp.clen > 0 /\ q.pos # q.resp.clen THEN "size"
  ELSE IF ~commitOK THEN "commitfail"
  ELSE "committed"

\* what tryFetchFromSource does at EOF (lines 237-256), given whether the
\* rename of the commit succeeds
Verdict(q, commitOK) ==
  IF HexEncode(q.hs) # q.hash THEN "mismatch"
  ELSE IF q.resp.clen > 0 /\ q.pos # q.resp.clen THEN "size"
  ELSE IF ~commitOK THEN "commitfail"
  ELSE "committed"

\* mutant of FillResult: a mismatch is returned as an error, not a panic
FillResult_ErrorOnMismatch(v) ==
  IF v \in {"mismatch", "size", "commitfail"} THEN "err"
  ELSE "ok"

\* how the fill leaves g.Do for each verdict: panic(http.ErrAbortHandler),
\* the commit error, or success
FillResult(v) ==
  IF v \in {"mismatch", "size"} THEN "panic"
  ELSE IF v = "commitfail" THEN "err"
  ELSE "ok"

\* EOF of the body: verify hash and size, then commit (temp renamed to the
\* final path) or abort; the temp file is gone on every path
StreamEOF(r) ==
  /\ req[r].pc = "stream"
  /\ req[r].pos = Len(req[r].resp.data)
  /\ ~req[r].resp.err
  /\ \E commitOK \in BOOLEAN :
       LET q == req[r]
           v == Verdict(q, commitOK)
           path == getRelPath(q.algo, q.hash)
       IN  /\ req' = IF FillResult(v) = "err"
                        THEN SourceFailed(r, [q EXCEPT !.fill = v])
                        ELSE DoReturn(r, [q EXCEPT !.fill = v], FillResult(v))
           /\ store' = IF v = "committed" THEN [store EXCEPT ![path] = temps[r]] ELSE store
           /\ commits' = IF v = "committed" THEN [commits EXCEPT ![path] = @ + 1] ELSE commits
           /\ temps' = [temps EXCEPT ![r] = TempAfter(temps[r], v = "committed")]
           /\ calls' = IF FillResult(v) = "err"
                          THEN CallsAfterSourceFailed(q)
                          ELSE Forget(sfKey(q.algo, q.hash))
  /\ UNCHANGED <<ldb, fs, hu, px, rp, js, ev, cl, upstreams>>

\* a follower resumes from g.Do with the leader's result (shared = true)
Woken(r) ==
  /\ req[r].pc = "woken"
  /\ req' = [req EXCEPT ![r] = AfterDo(req[r], req[r].sfres, TRUE)]
  /\ UNCHANGED <<ldb, fs, hu, px, rp, js, ev, cl, upstreams, store, temps, calls, commits>>

\* the client of a request blocked in g.Do goes away (its r.Context() is
\* cancelled): nothing in the handler watches it
Leave(r) ==
  /\ req[r].pc = "waiting"
  /\ ~req[r].gone
  /\ req' = [req EXCEPT ![r].gone = TRUE]
  /\ calls' = CallsAfterLeave(sfKey(req[r].algo, req[r].hash))
  /\ UNCHANGED <<ldb, fs, hu, px, rp, js, ev, cl, upstreams, store, temps, commits>>

Next ==
  \E r \in Reqs :
    \/ Leave(r)
    \/ Arrive(r)
    \/ ServeFromCache(r)
    \/ FetchMiss(r)
    \/ TrySource(r)
    \/ AllFailed(r)
    \/ StreamChunk(r)
    \/ ReadError(r)
    \/ StreamEOF(r)
    \/ Woken(r)

Spec == Init /\ [][Next]_vars

\* ------------------------------------------------------------------------
\* Properties of the CAS handler
\* ------------------------------------------------------------------------
KeyOf(r) == sfKey(req[r].algo, req[r].hash)

PathOf(r) == getRelPath(req[r].algo, req[r].hash)

\* requests executing the fill of key k (inside the function given to g.Do)
Fillers(k) == {r \in Reqs : req[r].pc \in {"fetch", "stream"} /\ KeyOf(r) = k}

\* requests blocked in g.Do on key k
Waiters(k) == {r \in Reqs : req[r].pc = "waiting" /\ KeyOf(r) = k}

\* C1: for every digest at most one fill is executing at any moment, and a
\* miss request that reaches the single flight while a fill of its digest
\* runs waits for that fill: whoever waits, waits on exactly one running fill
\* and owns no temp file or outbound request of its own.
C1_AtMostOneFill ==
  \A k \in Digests :
    /\ Cardinality(Fillers(k)) <= 1
    /\ Cardinality({r \in Reqs : temps[r].present /\ KeyOf(r) = k}) <= 1
    /\ \A r \in Waiters(k) :
         /\ Cardinality(Fillers(k)) = 1
         /\ calls[k].active
         /\ req[r].tried = <<>>
         /\ ~temps[r].present

\* C1 witness: a leader is streaming while another request waits on its key
C1_Witness ==
  \E r1, r2 \in Reqs :
    /\ r1 # r2
    /\ req[r1].pc = "stream"
    /\ req[r2].pc = "waiting"
    /\ KeyOf(r1) = KeyOf(r2)

\* C2 (as claimed): for a given digest exactly one commit occurs, however the
\* concurrent requests for it interleave.
C2_ExactlyOneCommit == \A p \in Paths : commits[p] <= 1

\* every file at a final path hashes to the hex of that path
C3_FinalPathHashes ==
  \A d \in Digests :
    LET f == store[getRelPath(d[1], d[2])]
    IN  f.present => HexEncode(HashOf(d[1], f.data)) = d[2]

\* a final path changes only by the commit of a temp file that holds the
\* complete body of a response read to EOF
C3_CommitIsComplete ==
  \A p \in Paths :
    store'[p] # store[p] =>
      \E r \in Reqs :
        /\ PathOf(r) = p
        /\ req[r].pc = "stream"
        /\ ~req[r].resp.err
        /\ req[r].pos = Len(req[r].resp.data)
        /\ Len(req[r].resp.data) = req[r].resp.clen
        /\ store'[p] = File(req[r].resp.data)
        /\ temps[r] = store'[p]

\* C3: in every reachable state a file at a final path hashes to the hex of
\* that path, and it got there in one step from a temp file holding the
\* complete body of a response read to EOF; partial or unverified data is
\* only ever in a temp file.
C3_FinalPathVerified == [](C3_FinalPathHashes) /\ [][C3_CommitIsComplete]_vars

\* C3 witness: a committed file exists while another fill holds a partially
\* written temp file
C3_Witness ==
  \E r \in Reqs, p \in Paths :
    /\ store[p].present
    /\ req[r].pc = "stream"
    /\ temps[r].present
    /\ 0 < req[r].pos /\ req[r].pos < Len(req[r].resp.data)

\* the step that finds the mismatch aborts, removes the temp file and
\* changes no final path
C4_MismatchStep ==
  \A r \in Reqs :
    (req[r].fill = "active" /\ req'[r].fill \in {"mismatch", "size"}) =>
      /\ req'[r].end = "aborted"
      /\ ~temps'[r].present
      /\ store' = store
      /\ commits' = commits

\* after a mismatch the request is aborted and its temp file is gone
C4_MismatchState ==
  \A r \in Reqs :
    req[r].fill \in {"mismatch", "size"} =>
      /\ req[r].end = "aborted"
      /\ ~temps[r].present

C6_AllFailedState ==
  \A r \in Reqs :
    req[r].fill = "allfailed" =>
      /\ req[r].pc = "done"
      /\ req[r].status = 502
      /\ req[r].end = "returned"
      /\ req[r].body = <<>>
      /\ ~temps[r].present

\* the step that gives up changes no final path
C6_AllFailedStep ==
  \A r \in Reqs :
    (req[r].fill = "active" /\ req'[r].fill = "allfailed") =>
      (store' = store /\ commits' = commits)

C7_HeadNeverFills ==
  \A r \in Reqs :
    (req[r].method = "HEAD" /\ req[r].role \in {"miss", "leader", "follower"}) =>
      /\ req[r].tried = <<>>
      /\ ~temps[r].present
      /\ req[r].pc = "done" => req[r].status = 404

\* C8: right after a source answered 200 without Content-Length the leader
\* has sent no header and no body byte, has no temp file, and stands before
\* the next source of its list (or before giving up when there is none);
\* such a response never starts streaming.
C8_NoLengthRejected ==
  \A r \in Reqs :
    req[r].last = "nolen" =>
      /\ req[r].pc = "fetch"
      /\ req[r].idx = Len(req[r].tried) + 1
      /\ req[r].tried = SubSeq(req[r].srcs, 1, req[r].idx - 1)
      /\ ~req[r].hw
      /\ req[r].status = 0
      /\ req[r].body = <<>>
      /\ ~temps[r].present

\* C8 witness: the first source had no Content-Length and the leader stands
\* before the second
C8_Witness ==
  \E r \in Reqs :
    /\ req[r].last = "nolen"
    /\ req[r].idx = 2
    /\ Len(req[r].srcs) = 2

ClientResponses ==
  {NoResp}
  \cup {[status |-> c, clen |-> 0, data |-> <<>>, err |-> FALSE] : c \in {404, 500}}
  \cup {[status |-> 200, clen |-> Len(b), data |-> b, err |-> FALSE] : b \in Bodies}
  \cup {[status |-> 200, clen |-> Len(b) + 1, data |-> b, err |-> TRUE] :
          b \in {x \in Bodies : Len(x) < MaxLen}}

\* what Fetch returns: nil, or a sentinel wrapping a cause (%w: %w)
NilError == [kind |-> "nil", cause |-> NoErr]

\* mutant of Wrap: the cause is dropped
Wrap_DropCause(kind, cause) == [kind |-> kind, cause |-> NoErr]

Wrap(kind, cause) == [kind |-> kind, cause |-> cause]

\* errors.As(err, &HTTPStatusError): the wrapped cause is of that type
AsHTTPStatusError(e) == e.cause.kind = "HTTPStatusError"

\* mutant of NextTarget: the direct URLs come before the servers
NextTarget_UrlsFirst(c) ==
  IF c.ai <= c.urls THEN <<"url", c.ai>> ELSE <<"server", c.ai - c.urls>>

\* the two loops of Fetch (lines 89 and 101): the servers in list order, then
\* the direct URLs in list order
NextTarget(c) ==
  IF c.ai <= c.servers THEN <<"server", c.ai>> ELSE <<"url", c.ai - c.servers>>

\* mutant of PartialWritten: the byte count is ignored
PartialWritten_Never(n) == FALSE

\* cw.N > 0: bytes already reached Out (lines 95 and 107)
PartialWritten(n) == n > 0

\* mutant of RetryOrStop: a failure after bytes were written is reported as
\* the bare cause
RetryOrStop_BareCause(c, err) ==
  IF PartialWritten(c.N)
    THEN [c EXCEPT !.lastErr = err, !.ret = Wrap(err.kind, NoErr), !.pc = "done"]
    ELSE [c EXCEPT !.lastErr = err, !.ai = @ + 1, !.pc = "attempt"]

\* Fetch after an attempt failed with err (lines 91-98, 103-110): stop with
\* ErrPartialWrite when bytes were written, else go on to the next attempt
RetryOrStop(c, err) ==
  IF PartialWritten(c.N)
    THEN [c EXCEPT !.lastErr = err, !.ret = Wrap("ErrPartialWrite", err), !.pc = "done"]
    ELSE [c EXCEPT !.lastErr = err, !.ai = @ + 1, !.pc = "attempt"]

\* Fetch is called (lines 80-86)
CFetch ==
  /\ cl.pc = "idle"
  /\ \E a \in AlgoNames, h \in Hexes, ns \in 0..MaxServers, nu \in 0..MaxUrls :
       cl' = IF ~IsSupported(a)
               THEN [cl EXCEPT !.algo = a, !.hash = h, !.servers = ns, !.urls = nu,
                               !.ret = Wrap("ErrUnsupportedAlgorithm", NoErr), !.pc = "done"]
               ELSE [cl EXCEPT !.algo = a, !.hash = h, !.servers = ns, !.urls = nu,
                               !.ai = 1, !.pc = "attempt"]
  /\ UNCHANGED <<ldb, fs, hu, px, rp, js, ev, upstreams, store, temps, calls, req, commits>>

\* doRequest up to the copy (lines 161-178), for the next server or, the
\* servers exhausted, the next direct URL
CDoRequest ==
  /\ cl.pc = "attempt"
  /\ cl.ai <= cl.servers + cl.urls
  /\ \E resp \in ClientResponses :
       LET c == [cl EXCEPT !.tried = Append(@, NextTarget(cl)), !.resp = resp]
       IN  cl' = IF resp.status = 0 THEN RetryOrStop(c, ErrOf("transport"))
                 ELSE IF resp.status # 200 THEN RetryOrStop(c, HTTPStatusError(resp.status))
                 ELSE [c EXCEPT !.pc = "copy", !.pos = 0, !.hs = HasherNew(cl.algo)]
  /\ UNCHANGED <<ldb, fs, hu, px, rp, js, ev, upstreams, store, temps, calls, req, commits>>

\* io.Copy(MultiWriter(out, hasher), resp.Body), one byte through the
\* counting writer
CCopy ==
  /\ cl.pc = "copy"
  /\ cl.pos < Len(cl.resp.data)
  /\ LET x == cl.resp.data[cl.pos + 1]
     IN  cl' = [cl EXCEPT !.out = Append(@, x), !.N = @ + 1, !.pos = @ + 1,
                          !.hs = HasherWrite(cl.algo, @, x)]
  /\ UNCHANGED <<ldb, fs, hu, px, rp, js, ev, upstreams, store, temps, calls, req, commits>>

\* the body read fails (lines 180-182)
CReadError ==
  /\ cl.pc = "copy"
  /\ cl.pos = Len(cl.resp.data)
  /\ cl.resp.err
  /\ cl' = RetryOrStop(cl, ErrOf("read"))
  /\ UNCHANGED <<ldb, fs, hu, px, rp, js, ev, upstreams, store, temps, calls, req, commits>>

\* EOF: compare the digest (lines 184-189)
CEOF ==
  /\ cl.pc = "copy"
  /\ cl.pos = Len(cl.resp.data)
  /\ ~cl.resp.err
  /\ cl' = IF HexEncode(cl.hs) # cl.hash
             THEN RetryOrStop(cl, ErrOf("ErrHashMismatch"))
             ELSE [cl EXCEPT !.ret = NilError, !.pc = "done"]
  /\ UNCHANGED <<ldb, fs, hu, px, rp, js, ev, upstreams, store, temps, calls, req, commits>>

\* no server and no source is left (lines 112-115)
CAllFailed ==
  /\ cl.pc = "attempt"
  /\ cl.ai > cl.servers + cl.urls
  /\ cl' = [cl EXCEPT !.ret = Wrap("ErrAllSourcesFailed", cl.lastErr), !.pc = "done"]
  /\ UNCHANGED <<ldb, fs, hu, px, rp, js, ev, upstreams, store, temps, calls, req, commits>>

InitClient ==
  /\ cl = ClientIdle
  /\ ev = EvNone
  /\ upstreams = <<>>
  /\ store = [p \in Paths |-> NoFile]
  /\ temps = [r \in Reqs |-> NoFile]
  /\ calls = [d \in Digests |-> NoCall]
  /\ req = [r \in Reqs |-> IdleReq]
  /\ commits = [p \in Paths |-> 0]
  /\ px = PxNone
  /\ rp = RpNone
  /\ js = JsNone
  /\ ldb = DbNone
  /\ fs = FsNone
  /\ hu = HuNone

NextClient ==
  \/ CFetch
  \/ CDoRequest
  \/ CCopy
  \/ CReadError
  \/ CEOF
  \/ CAllFailed

SpecClient == InitClient /\ [][NextClient]_vars

\* C10: when Fetch returns nil, everything written to out since the call
\* began is the complete body of the attempt that succeeded, counted by the
\* counting writer, and its digest under algo is the requested hash.
C10_SuccessIsOneVerifiedBody ==
  cl.ret = NilError =>
    /\ cl.pc = "done"
    /\ cl.out = cl.resp.data
    /\ cl.N = Len(cl.out)
    /\ HexEncode(HashOf(cl.algo, cl.out)) = cl.hash

\* C10 witness: Fetch succeeded with a non-empty body at its third attempt,
\* after two attempts that failed
C10_Witness ==
  /\ cl.ret = NilError
  /\ cl.ai = 3
  /\ cl.lastErr # NoErr
  /\ cl.out # <<>>

\* the attempts of one Fetch call, in the order the claim states: every
\* server in list order, then every direct URL in list order
ExpectedOrder(c) ==
  [i \in 1..(c.servers + c.urls) |->
     IF i <= c.servers THEN <<"server", i>> ELSE <<"url", i - c.servers>>]

\* C11: a Fetch that failed after at least one byte reached out returned
\* ErrPartialWrite wrapping the cause of the failed attempt (ErrHashMismatch
\* when the body was complete but wrong), and that attempt was its last:
\* no attempt starts once a byte is written.
C11_PartialWriteStops ==
  /\ (cl.pc = "done" /\ cl.N > 0 /\ cl.ret # NilError) =>
        /\ cl.ret = [kind |-> "ErrPartialWrite", cause |-> cl.lastErr]
        /\ cl.lastErr # NoErr
        /\ Len(cl.tried) = cl.ai
        /\ (~cl.resp.err =>
              /\ cl.ret.cause = ErrOf("ErrHashMismatch")
              /\ cl.out = cl.resp.data
              /\ HexEncode(HashOf(cl.algo, cl.out)) # cl.hash)
        /\ (cl.resp.err => cl.ret.cause = ErrOf("read"))
  /\ cl.ret.kind = "ErrPartialWrite" => cl.N > 0
  /\ cl.pc = "attempt" => cl.N = 0
  /\ cl.pc = "copy" => cl.N = cl.pos

\* C11 witness: a server delivered a complete wrong body; Fetch returned
\* ErrPartialWrite wrapping ErrHashMismatch with a direct URL still untried
C11_Witness ==
  /\ cl.ret = [kind |-> "ErrPartialWrite", cause |-> ErrOf("ErrHashMismatch")]
  /\ cl.tried = <<(<<"server", 1>>)>>
  /\ cl.urls > 0

\* the requests issued so far follow the order, and Fetch stands where the
\* order says: before the next attempt nothing is written, a success ends at
\* the attempt that verified, ErrAllSourcesFailed comes after the last one
C12_OrderState ==
  /\ cl.tried = SubSeq(ExpectedOrder(cl), 1, Len(cl.tried))
  /\ cl.pc = "attempt" => (Len(cl.tried) = cl.ai - 1 /\ cl.N = 0)
  /\ cl.pc = "copy" => Len(cl.tried) = cl.ai
  /\ cl.ret = NilError =>
        /\ Len(cl.tried) = cl.ai
        /\ cl.resp.status = 200 /\ ~cl.resp.err
        /\ HexEncode(HashOf(cl.algo, cl.resp.data)) = cl.hash
  /\ cl.ret.kind = "ErrAllSourcesFailed" => Len(cl.tried) = cl.servers + cl.urls

\* a request is issued only by a Fetch that has not returned, and a Fetch
\* that returned does nothing more
C12_OrderStep ==
  /\ cl.tried' # cl.tried =>
        (cl.pc = "attempt" /\ cl.ret.kind = "pending" /\ Len(cl.tried') = Len(cl.tried) + 1)
  /\ cl.pc = "done" => cl' = cl

C13_AllSourcesFailed ==
  /\ (cl.pc = "done" /\ cl.N = 0 /\ cl.ret.kind \notin {"nil", "ErrUnsupportedAlgorithm"}) =>
        cl.ret.kind = "ErrAllSourcesFailed"
  /\ cl.ret.kind = "ErrAllSourcesFailed" =>
        /\ cl.N = 0 /\ cl.out = <<>>
        /\ cl.ret.cause = cl.lastErr
        /\ (cl.tried # <<>> => cl.ret.cause # NoErr)
        /\ (cl.tried # <<>> /\ cl.resp.status \notin {0, 200} =>
              /\ AsHTTPStatusError(cl.ret)
              /\ cl.ret.cause.code = cl.resp.status)
        /\ (cl.tried # <<>> /\ cl.resp.status = 0 => cl.ret.cause = ErrOf("transport"))

\* C13 witness: three attempts failed, the last with status 404
C13_Witness ==
  /\ cl.ret = [kind |-> "ErrAllSourcesFailed", cause |-> HTTPStatusError(404)]
  /\ Len(cl.tried) = 3

\* C14: Fetch returns ErrUnsupportedAlgorithm exactly when the normalized
\* algorithm name is none of sha1, sha256, sha512, and then it has issued no
\* request and written nothing.
C14_UnsupportedAlgorithm ==
  /\ cl.pc # "idle" =>
        (cl.ret.kind = "ErrUnsupportedAlgorithm" <=>
           NormalizeAlgo(cl.algo) \notin
             {<<"s", "h", "a", "1">>, <<"s", "h", "a", "2", "5", "6">>,
              <<"s", "h", "a", "5", "1", "2">>})
  /\ cl.ret.kind = "ErrUnsupportedAlgorithm" =>
        (cl.pc = "done" /\ cl.tried = <<>> /\ cl.out = <<>> /\ cl.N = 0)

\* C14 witness: Fetch was called with md5, servers and URLs configured
C14_Witness ==
  /\ cl.ret.kind = "ErrUnsupportedAlgorithm"
  /\ cl.algo = <<"m", "d", "5">>
  /\ cl.servers > 0 /\ cl.urls > 0

\* ------------------------------------------------------------------------
\* Eviction: Manager (internal/eviction/manager.go), LRU strategy
\* (internal/eviction/lru/lru.go), maxsize policy, and the LocalRepository
\* operations it works with (Walk, Delete, commit, Get)
\* ------------------------------------------------------------------------
\* byte order of the characters that occur in file names
Alphabet == <<"-", ".">> \o SubSeq(HexDigit, 1, 10) \o LowerCase

CharRank(c) == CHOOSE i \in DOMAIN Alphabet : Alphabet[i] = c

\* lexical order of two names
RECURSIVE NameLess(_, _)
NameLess(a, b) ==
  IF b = <<>> THEN FALSE
  ELSE IF a = <<>> THEN TRUE
  ELSE IF Head(a) = Head(b) THEN NameLess(Tail(a), Tail(b))
  ELSE CharRank(Head(a)) < CharRank(Head(b))

\* order in which filepath.WalkDir visits two paths: directory entries are
\* read sorted by name
RECURSIVE PathLess(_, _)
PathLess(p, q) ==
  IF q = <<>> THEN FALSE
  ELSE IF p = <<>> THEN TRUE
  ELSE IF Head(p) = Head(q) THEN PathLess(Tail(p), Tail(q))
  ELSE NameLess(Head(p), Head(q))

\* the files of a set in the order WalkDir visits them
RECURSIVE WalkOrder(_)
WalkOrder(S) ==
  IF S = {} THEN <<>>
  ELSE LET m == CHOOSE x \in S : \A y \in S \ {x} : PathLess(x, y)
       IN  <<m>> \o WalkOrder(S \ {m})

\* LocalRepository.Walk: every regular file under CacheDir, as its path
\* relative to CacheDir
Walk(disk) == WalkOrder(disk)

\* LRU: the list, front (most recently used) first
LruKeys(l) == {l[i].key : i \in DOMAIN l}

LruSize(l, k) ==
  IF k \in LruKeys(l) THEN l[CHOOSE i \in DOMAIN l : l[i].key = k].size ELSE 0

RECURSIVE LruWithout(_, _)
LruWithout(l, k) ==
  IF l = <<>> THEN <<>>
  ELSE IF Head(l).key = k THEN LruWithout(Tail(l), k)
  ELSE <<Head(l)>> \o LruWithout(Tail(l), k)

\* mutant of OnAdd: a tracked key is counted again in full
OnAdd_FullSize(l, k, size) ==
  [ lru |-> <<[key |-> k, size |-> size]>> \o LruWithout(l, k),
    diff |-> size ]

\* LRU.OnAdd: the list afterwards and the size difference it returns
OnAdd(l, k, size) ==
  [ lru |-> <<[key |-> k, size |-> size]>> \o LruWithout(l, k),
    diff |-> size - LruSize(l, k) ]

\* LRU.OnAccess
OnAccess(l, k) ==
  IF k \in LruKeys(l)
    THEN <<[key |-> k, size |-> LruSize(l, k)]>> \o LruWithout(l, k)
    ELSE l

\* mutant of Remove: the key stays in the list
Remove_Keep(l, k) == l

\* LRU.Remove
Remove(l, k) == LruWithout(l, k)

\* mutant of GetVictims: from the front of the list
RECURSIVE GetVictims_Front(_, _, _)
GetVictims_Front(l, size, targetSize) ==
  IF size > targetSize /\ l # <<>>
    THEN <<Head(l)>> \o GetVictims_Front(Tail(l), size - Head(l).size, targetSize)
    ELSE <<>>

\* LRU.GetVictims: from the back of the list while size > targetSize
RECURSIVE GetVictims(_, _, _)
GetVictims(l, size, targetSize) ==
  IF size > targetSize /\ l # <<>>
    THEN LET ent == l[Len(l)]
         IN  <<ent>> \o GetVictims(SubSeq(l, 1, Len(l) - 1), size - ent.size, targetSize)
    ELSE <<>>

\* mutant of BytesToFree: one byte less than the excess
BytesToFree_OneLess(maxBytes, currentSize) ==
  IF currentSize > maxBytes + 1 THEN currentSize - maxBytes - 1 ELSE 0

\* maxsize.Policy.BytesToFree
BytesToFree(maxBytes, currentSize) ==
  IF currentSize > maxBytes THEN currentSize - maxBytes ELSE 0

\* strategy.OnAdd for each file of a walk, in order
RECURSIVE AddAll(_, _, _)
AddAll(l, keys, size) ==
  IF keys = <<>> THEN l ELSE AddAll(OnAdd(l, Head(keys), size[Head(keys)]).lru, Tail(keys), size)

RECURSIVE SumSizes(_, _)
SumSizes(S, size) ==
  IF S = {} THEN 0
  ELSE LET x == CHOOSE y \in S : TRUE IN size[x] + SumSizes(S \ {x}, size)

\* Manager.LoadInitialState (lines 37-59), run once by NewServer before the
\* eviction goroutine and the handlers start
LoadInitialState ==
  /\ ~ev.booted
  /\ ev.tick.pc = "idle"
  /\ LET keys == Walk(ev.disk)
         seen == {keys[i] : i \in DOMAIN keys}
     IN  ev' = [ev EXCEPT !.booted = TRUE,
                          !.lru = AddAll(<<>>, keys, ev.size),
                          !.currentBytes = SumSizes(seen, ev.size),
                          !.net = [f \in Files |-> IF f \in seen THEN ev.size[f] ELSE 0]]
  /\ UNCHANGED <<ldb, fs, hu, px, rp, js, upstreams, store, temps, calls, req, commits, cl>>

\* time.Ticker: a tick is put in ticker.C, which holds one; a tick that
\* finds it full is dropped
TickerFire ==
  /\ ev.booted
  /\ ev.ticker = 0
  /\ ev' = [ev EXCEPT !.ticker = 1]
  /\ UNCHANGED <<ldb, fs, hu, px, rp, js, upstreams, store, temps, calls, req, commits, cl>>

\* mutant of AtSelect: RunEviction is started without waiting for the one
\* before
AtSelect_Always(t) == TRUE

\* Manager.Start: the loop is at its select, the call of RunEviction it
\* made, if any, has returned
AtSelect(t) == t.pc = "idle"

\* what Statfs can report to a minfree policy with the given limit
Statfs(minFree) ==
  IF minFree = 0 THEN {NoStat}
  ELSE {[err |-> TRUE, free |-> 0]} \cup {[err |-> FALSE, free |-> f] : f \in 0..MaxMinFree}

\* minfree.Policy.BytesToFree once Statfs succeeded
MinFreeBytesToFree(minFree, stat) ==
  IF stat.free < minFree THEN minFree - stat.free ELSE 0

\* mutant of MaxToFree: a policy that fails ends the check
MaxToFree_StopOnError(maxBytes, minFree, current, stat) ==
  LET a == IF maxBytes > 0 THEN BytesToFree(maxBytes, current) ELSE 0
      b == IF minFree > 0 THEN MinFreeBytesToFree(minFree, stat) ELSE 0
  IN  IF minFree > 0 /\ stat.err THEN 0
      ELSE IF b > a THEN b ELSE a

\* RunEviction, lines 95-106: the loop over the policies, maxsize before
\* minfree as NewServer appends them; a policy that returns an error is
\* skipped
MaxToFree(maxBytes, minFree, current, stat) ==
  LET a == IF maxBytes > 0 THEN BytesToFree(maxBytes, current) ELSE 0
      b == IF minFree > 0 /\ ~stat.err THEN MinFreeBytesToFree(minFree, stat) ELSE 0
  IN  IF b > a THEN b ELSE a

\* Manager.Start receives from ticker.C and calls RunEviction, lines 94-110:
\* load currentBytes, ask the policies
TickLoad ==
  /\ ev.booted
  /\ AtSelect(ev.tick)
  /\ ev.ticker > 0
  /\ \E stat \in Statfs(ev.minFree) :
       LET current == ev.currentBytes
           maxToFree == MaxToFree(ev.maxBytes, ev.minFree, current, stat)
       IN  ev' = IF maxToFree <= 0
                   THEN [ev EXCEPT !.ticker = 0]
                   ELSE [ev EXCEPT !.ticker = 0, !.running = @ + 1,
                                   !.tick = [IdleTick EXCEPT !.pc = "loaded", !.current = current,
                                                             !.toFree = maxToFree, !.stat = stat]]
  /\ UNCHANGED <<ldb, fs, hu, px, rp, js, upstreams, store, temps, calls, req, commits, cl>>

\* RunEviction, lines 112-116: the target size, not below zero
TargetSize(current, maxToFree) ==
  IF current - maxToFree < 0 THEN 0 ELSE current - maxToFree

\* RunEviction, lines 112-121: the target and the victims
TickVictims ==
  /\ ev.tick.pc = "loaded"
  /\ LET current == ev.tick.current
         targetSize == TargetSize(current, ev.tick.toFree)
         victims == GetVictims(ev.lru, current, targetSize)
     IN  ev' = IF victims = <<>>
                 THEN [ev EXCEPT !.running = @ - 1, !.tick = IdleTick]
                 ELSE [ev EXCEPT !.tick = [IdleTick EXCEPT !.pc = "delete", !.victims = victims]]
  /\ UNCHANGED <<ldb, fs, hu, px, rp, js, upstreams, store, temps, calls, req, commits, cl>>

\* LocalRepository.Delete: the error of os.Remove, unless it says that the
\* file does not exist
DeleteErr(disk, undeletable, key) == key \in disk /\ key \in undeletable

\* mutant of AfterDelete: a failed Delete ends the pass
AfterDelete_Halt(t, err) ==
  IF err THEN [t EXCEPT !.pc = "sub", !.delerr = err, !.victims = <<Head(@)>>]
  ELSE [t EXCEPT !.pc = "remove", !.delerr = err]

\* RunEviction, lines 128-134: the error is logged and the loop body goes on
\* to strategy.Remove
AfterDelete(t, err) == [t EXCEPT !.pc = "remove", !.delerr = err]

\* RunEviction, line 126: store.Delete of the next victim
TickDelete ==
  /\ ev.tick.pc = "delete"
  /\ LET key == Head(ev.tick.victims).key
         err == DeleteErr(ev.disk, ev.undeletable, key)
     IN  ev' = [ev EXCEPT !.disk = IF err THEN @ ELSE @ \ {key},
                          !.leaked = IF err THEN @ \cup {key} ELSE @,
                          !.tick = AfterDelete(@, err)]
  /\ UNCHANGED <<ldb, fs, hu, px, rp, js, upstreams, store, temps, calls, req, commits, cl>>

\* RunEviction, line 134: strategy.Remove of the victim
TickRemove ==
  /\ ev.tick.pc = "remove"
  /\ ev' = [ev EXCEPT !.lru = Remove(@, Head(ev.tick.victims).key), !.tick.pc = "sub"]
  /\ UNCHANGED <<ldb, fs, hu, px, rp, js, upstreams, store, temps, calls, req, commits, cl>>

\* RunEviction, line 137: currentBytes.Add(-victim.Size), then the next
\* victim or the end of the tick
TickSub ==
  /\ ev.tick.pc = "sub"
  /\ LET victim == Head(ev.tick.victims)
         rest == Tail(ev.tick.victims)
     IN  ev' = [ev EXCEPT !.currentBytes = @ - victim.size,
                          !.net[victim.key] = @ - victim.size,
                          !.running = IF rest = <<>> THEN @ - 1 ELSE @,
                          !.tick = [IdleTick EXCEPT !.pc = IF rest = <<>> THEN "idle" ELSE "delete",
                                                    !.victims = rest]]
  /\ UNCHANGED <<ldb, fs, hu, px, rp, js, upstreams, store, temps, calls, req, commits, cl>>

\* a handler found no file at the final path (Exists) and fills it
WBegin(r) ==
  /\ ev.booted
  /\ ev.w[r].pc = "idle"
  /\ \E k \in Paths \ ev.disk :
       ev' = [ev EXCEPT !.w[r] = [pc |-> "fill", key |-> k, diff |-> 0]]
  /\ UNCHANGED <<ldb, fs, hu, px, rp, js, upstreams, store, temps, calls, req, commits, cl>>

\* commit, lines 254-268: the rename onto the final path
WRename(r) ==
  /\ ev.w[r].pc = "fill"
  /\ ev' = [ev EXCEPT !.disk = @ \cup {ev.w[r].key}, !.w[r].pc = "renamed"]
  /\ UNCHANGED <<ldb, fs, hu, px, rp, js, upstreams, store, temps, calls, req, commits, cl>>

\* commit, lines 271-276, and Manager.Add line 78: stat of the final path,
\* then strategy.OnAdd; a failed stat skips the accounting
WOnAdd(r) ==
  /\ ev.w[r].pc = "renamed"
  /\ LET k == ev.w[r].key
         res == OnAdd(ev.lru, k, ev.size[k])
     IN  ev' = IF k \in ev.disk
                 THEN [ev EXCEPT !.lru = res.lru, !.w[r].pc = "count", !.w[r].diff = res.diff]
                 ELSE [ev EXCEPT !.w[r] = [pc |-> "idle", key |-> <<>>, diff |-> 0]]
  /\ UNCHANGED <<ldb, fs, hu, px, rp, js, upstreams, store, temps, calls, req, commits, cl>>

\* Manager.Add line 79: currentBytes.Add(diff)
WCount(r) ==
  /\ ev.w[r].pc = "count"
  /\ ev' = [ev EXCEPT !.currentBytes = @ + ev.w[r].diff,
                      !.net[ev.w[r].key] = @ + ev.w[r].diff,
                      !.w[r] = [pc |-> "idle", key |-> <<>>, diff |-> 0]]
  /\ UNCHANGED <<ldb, fs, hu, px, rp, js, upstreams, store, temps, calls, req, commits, cl>>

\* mutant of TickAfterTouch: a touched key leaves the victims still waiting
TickAfterTouch_Drop(t, k) ==
  IF t.victims = <<>> THEN t
  ELSE [t EXCEPT !.victims = <<Head(@)>> \o LruWithout(Tail(@), k)]

\* the tick after a touch of k: OnAccess moves the element in the list and
\* does not reach the slice GetVictims returned
TickAfterTouch(t, k) == t

\* LocalRepository.Get of a present entry (lines 217-232): Manager.Touch
Touch(k) ==
  /\ ev.booted
  /\ k \in ev.disk
  /\ ev' = [ev EXCEPT !.lru = OnAccess(@, k), !.tick = TickAfterTouch(@, k)]
  /\ UNCHANGED <<ldb, fs, hu, px, rp, js, upstreams, store, temps, calls, req, commits, cl>>

\* the cache directory a server starts on: any files of an earlier run
InitEvict ==
  /\ \E disk \in SUBSET Files, size \in [Files -> 1..MaxFileSize], maxBytes \in 1..MaxCacheSize :
       ev = EvStart(disk, size, maxBytes)
  /\ cl = ClientIdle
  /\ upstreams = <<>>
  /\ store = [p \in Paths |-> NoFile]
  /\ temps = [r \in Reqs |-> NoFile]
  /\ calls = [d \in Digests |-> NoCall]
  /\ req = [r \in Reqs |-> IdleReq]
  /\ commits = [p \in Paths |-> 0]
  /\ px = PxNone
  /\ rp = RpNone
  /\ js = JsNone
  /\ ldb = DbNone
  /\ fs = FsNone
  /\ hu = HuNone

NextEvict ==
  \/ LoadInitialState
  \/ TickerFire
  \/ TickLoad
  \/ TickVictims
  \/ TickDelete
  \/ TickRemove
  \/ TickSub
  \/ \E r \in Reqs : WBegin(r) \/ WRename(r) \/ WOnAdd(r) \/ WCount(r)
  \/ \E k \in Paths : Touch(k)

SpecEvict == InitEvict /\ [][NextEvict]_vars

\* bytes of the entries present in the cache directory
DiskBytes == SumSizes(ev.disk \cap Paths, ev.size)

\* sizes of the entries whose add or removal is in progress: a commit between
\* its rename and its currentBytes.Add, the tick between Delete and
\* currentBytes.Add(-size)
InFlightBytes ==
  SumSizes({r \in Reqs : ev.w[r].pc \in {"renamed", "count"}},
           [r \in Reqs |-> ev.size[ev.w[r].key]])
  + (IF ev.tick.pc \in {"remove", "sub"} THEN Head(ev.tick.victims).size ELSE 0)

Abs(n) == IF n < 0 THEN -n ELSE n

\* C15: in a cache directory that holds only entries, currentBytes differs
\* from the sum of the sizes of the entries on disk by no more than the
\* sizes of the entries being added or removed at that moment; with nothing
\* in progress the two are equal.
C15_CurrentBytesIsSum ==
  (ev.booted /\ ev.disk \cap NonEntries = {}) =>
    Abs(ev.currentBytes - DiskBytes) <= InFlightBytes

\* size differences returned by OnAdd for key k and not yet added to
\* currentBytes
PendingAdd(k) ==
  SumSizes({r \in Reqs : ev.w[r].pc = "count" /\ ev.w[r].key = k},
           [r \in Reqs |-> ev.w[r].diff])

\* size of victim k already removed from the strategy and not yet subtracted
PendingSub(k) ==
  IF ev.tick.pc = "sub" /\ Head(ev.tick.victims).key = k
    THEN Head(ev.tick.victims).size ELSE 0

\* C16: the bytes counted in currentBytes for a key, with the add and the
\* subtraction in progress taken into account, are the size the strategy
\* holds for it, and what was added and is being added is never less than
\* what was taken out: the size of a victim that was counted is subtracted
\* once, neither twice nor never, whatever commits and touches of the same
\* key run during the tick.
C16_VictimSubtractedOnce ==
  ev.booted =>
    /\ \A k \in Files :
         /\ ev.net[k] + PendingAdd(k) >= 0
         /\ ev.net[k] + PendingAdd(k) - PendingSub(k) = LruSize(ev.lru, k)
    /\ ev.currentBytes = SumSizes(Files, ev.net)

\* C16 witness: the tick has deleted and removed a victim and is about to
\* subtract its size while a commit of the same key is between OnAdd and
\* its currentBytes.Add
C16_Witness ==
  /\ ev.tick.pc = "sub"
  /\ \E r \in Reqs :
       /\ ev.w[r].pc = "count"
       /\ ev.w[r].key = Head(ev.tick.victims).key

\* C17: the strategy, filled from Walk at startup, holds only keys of
\* committed entries, and so do the victims of a tick: neither links.db
\* nor a put-* temp is ever up for deletion.
C17_OnlyEntriesEvicted ==
  /\ LruKeys(ev.lru) \subseteq Paths
  /\ \A i \in DOMAIN ev.tick.victims : ev.tick.victims[i].key \in Paths

\* C21: at most one execution of RunEviction is in progress at any time, and
\* it is the one the eviction goroutine is in: a tick that fires during a
\* pass waits in ticker.C until the pass has returned.
C21_TicksSequential ==
  /\ ev.running <= 1
  /\ ev.running = 1 <=> ev.tick.pc # "idle"

\* C21 witness: the ticker fired while a pass is between Delete and Remove
\* of a victim
C21_Witness ==
  /\ ev.ticker = 1
  /\ ev.tick.pc = "remove"
  /\ ev.running = 1

\* a step of the tick or beside it: the victims still waiting change only
\* when the tick has deleted, removed and subtracted the first of them, and
\* the tick leaves "delete" only by deleting that victim's file
C22_VictimsStep ==
  /\ ev.tick.victims # <<>> =>
       \/ ev'.tick.victims = ev.tick.victims
       \/ /\ ev.tick.pc = "sub"
          /\ ev'.tick.victims = Tail(ev.tick.victims)
  /\ (ev.tick.pc = "delete" /\ ev'.tick.pc # "delete") =>
       /\ ev'.tick.pc = "remove"
       /\ Head(ev.tick.victims).key \notin ev'.disk
  /\ (ev.tick.pc = "remove" /\ ev'.tick.pc # "remove") => ev'.tick.pc = "sub"
  /\ (ev.tick.pc = "sub" /\ ev'.tick.pc # "sub") =>
       ev'.tick.pc = (IF Len(ev.tick.victims) = 1 THEN "idle" ELSE "delete")

\* C22: every victim a tick selected is deleted by that tick, in the order
\* selected, whatever reads touch it after the selection; a touch changes
\* the list of the strategy, which the next tick reads.
C22_SelectedVictimsDeleted == [][C22_VictimsStep]_vars

\* C22 witness: the tick has deleted a victim that a read touched after the
\* selection: the victim, taken from the back of the list, is at its front
C22_Witness ==
  /\ ev.tick.pc = "remove"
  /\ Len(ev.lru) >= 2
  /\ Head(ev.lru).key = Head(ev.tick.victims).key
  /\ Head(ev.tick.victims).key \notin ev.disk

TestKeys == {<< <<"a">> >>, << <<"b">> >>, << <<"c">> >>}

\* the largest currentSize and targetSize passed to GetVictims
MaxCurrent == Cardinality(TestKeys) * MaxFileSize

\* a sequence of keys without k
RECURSIVE KeysWithout(_, _)
KeysWithout(o, k) ==
  IF o = <<>> THEN <<>>
  ELSE IF Head(o) = k THEN KeysWithout(Tail(o), k)
  ELSE <<Head(o)>> \o KeysWithout(Tail(o), k)

\* l.OnAdd(key, size)
LOnAdd(k, size) ==
  /\ LET res == OnAdd(ev.lru, k, size)
     IN  ev' = [ev EXCEPT !.lru = res.lru,
                          !.h = [NoOp EXCEPT !.op = "OnAdd", !.key = k, !.size = size,
                                             !.diff = res.diff, !.before = ev.lru,
                                             !.order = <<k>> \o KeysWithout(ev.h.order, k),
                                             !.total = ev.h.total + res.diff]]
  /\ UNCHANGED <<ldb, fs, hu, px, rp, js, upstreams, store, temps, calls, req, commits, cl>>

\* l.OnAccess(key)
LOnAccess(k) ==
  /\ ev' = [ev EXCEPT !.lru = OnAccess(@, k),
                      !.h = [NoOp EXCEPT !.op = "OnAccess", !.key = k, !.before = ev.lru,
                                         !.order = IF k \in LruKeys(ev.lru)
                                                     THEN <<k>> \o KeysWithout(ev.h.order, k)
                                                     ELSE ev.h.order,
                                         !.total = ev.h.total]]
  /\ UNCHANGED <<ldb, fs, hu, px, rp, js, upstreams, store, temps, calls, req, commits, cl>>

\* l.Remove(key)
LRemove(k) ==
  /\ ev' = [ev EXCEPT !.lru = Remove(@, k),
                      !.h = [NoOp EXCEPT !.op = "Remove", !.key = k, !.before = ev.lru,
                                         !.order = KeysWithout(ev.h.order, k),
                                         !.total = ev.h.total - LruSize(ev.lru, k)]]
  /\ UNCHANGED <<ldb, fs, hu, px, rp, js, upstreams, store, temps, calls, req, commits, cl>>

\* l.GetVictims(currentSize, targetSize)
LGetVictims(currentSize, targetSize) ==
  /\ ev' = [ev EXCEPT !.h = [NoOp EXCEPT !.op = "GetVictims", !.size = currentSize,
                                         !.target = targetSize,
                                         !.victims = GetVictims(ev.lru, currentSize, targetSize),
                                         !.before = ev.lru, !.order = ev.h.order,
                                         !.total = ev.h.total]]
  /\ UNCHANGED <<ldb, fs, hu, px, rp, js, upstreams, store, temps, calls, req, commits, cl>>

\* lru.New()
InitLru ==
  /\ ev = EvNone
  /\ cl = ClientIdle
  /\ upstreams = <<>>
  /\ store = [p \in Paths |-> NoFile]
  /\ temps = [r \in Reqs |-> NoFile]
  /\ calls = [d \in Digests |-> NoCall]
  /\ req = [r \in Reqs |-> IdleReq]
  /\ commits = [p \in Paths |-> 0]
  /\ px = PxNone
  /\ rp = RpNone
  /\ js = JsNone
  /\ ldb = DbNone
  /\ fs = FsNone
  /\ hu = HuNone

NextLru ==
  \/ \E k \in TestKeys, size \in 0..MaxFileSize : LOnAdd(k, size)
  \/ \E k \in TestKeys : LOnAccess(k)
  \/ \E k \in TestKeys : LRemove(k)
  \/ \E currentSize \in 0..MaxCurrent, targetSize \in 0..MaxCurrent :
       LGetVictims(currentSize, targetSize)

SpecLru == InitLru /\ [][NextLru]_vars

\* the sizes of the first n entries of a sequence, added up
RECURSIVE FirstBytes(_, _)
FirstBytes(v, n) == IF n = 0 THEN 0 ELSE v[n].size + FirstBytes(v, n - 1)

\* C28: what GetVictims(current, target) returned is, key by key, the
\* least recently added or accessed keys, the least recent first, each with
\* its tracked size; it is empty when current <= target, stops as soon as
\* current less the sizes taken is at most target, and otherwise holds every
\* key; the list of the strategy is what it was before the call.
C28_VictimsFromLruEnd ==
  ev.h.op = "GetVictims" =>
    LET v == ev.h.victims
        o == ev.h.order
        n == Len(v)
    IN  /\ ev.lru = ev.h.before
        /\ n <= Len(o)
        /\ \A i \in 1..n :
             /\ v[i].key = o[Len(o) - i + 1]
             /\ v[i].size = LruSize(ev.lru, v[i].key)
        /\ ev.h.size <= ev.h.target => n = 0
        /\ \/ ev.h.size - FirstBytes(v, n) <= ev.h.target
           \/ n = Len(o)
        /\ n > 0 => ev.h.size - FirstBytes(v, n - 1) > ev.h.target

\* C28 witness: a, b, c were added, a was accessed again, and GetVictims
\* took b and then c and left a
C28_Witness ==
  /\ ev.h.op = "GetVictims"
  /\ ev.h.order = << << <<"a">> >>, << <<"c">> >>, << <<"b">> >> >>
  /\ Len(ev.h.victims) = 2
  /\ ev.h.victims[1].key = << <<"b">> >>
  /\ ev.h.size - FirstBytes(ev.h.victims, 2) = ev.h.target

\* C29: after OnAdd(key, size) the key is first in the list with that size
\* and the other keys follow as they were; the call returned size for a new
\* key and size less the old size for a tracked one; and the differences
\* returned so far, less the sizes of the keys removed, add up to the sizes
\* tracked.
C29_OnAddDelta ==
  /\ ev.h.total = FirstBytes(ev.lru, Len(ev.lru))
  /\ ev.h.op = "OnAdd" =>
       LET b == ev.h.before
           k == ev.h.key
       IN  /\ ev.lru # <<>>
           /\ Head(ev.lru) = [key |-> k, size |-> ev.h.size]
           /\ Tail(ev.lru) = SelectSeq(b, LAMBDA e : e.key # k)
           /\ \A i \in DOMAIN b : b[i].key = k => ev.h.diff = ev.h.size - b[i].size
           /\ (\A i \in DOMAIN b : b[i].key # k) => ev.h.diff = ev.h.size

\* C29 witness: OnAdd of a tracked key that was last of two, with a smaller
\* size
C29_Witness ==
  /\ ev.h.op = "OnAdd"
  /\ ev.h.diff < 0
  /\ Len(ev.h.before) = 2
  /\ ev.h.before[2].key = ev.h.key
  /\ Len(ev.h.order) = 2

\* ------------------------------------------------------------------------
\* The Manager used as TestManager uses it: files are created and added and
\* entries are read only between two executions of RunEviction
\* ------------------------------------------------------------------------
\* createFile and mgr.Add of a file that is not in the directory, with no
\* RunEviction in progress
QuietAdd(k) ==
  /\ ev.booted
  /\ ev.tick.pc = "idle"
  /\ k \notin ev.disk
  /\ LET res == OnAdd(ev.lru, k, ev.size[k])
     IN  ev' = [ev EXCEPT !.disk = @ \cup {k}, !.lru = res.lru,
                          !.currentBytes = @ + res.diff, !.net[k] = @ + res.diff]
  /\ UNCHANGED <<ldb, fs, hu, px, rp, js, upstreams, store, temps, calls, req, commits, cl>>

\* a read of an entry with no RunEviction in progress
QuietTouch(k) ==
  /\ ev.tick.pc = "idle"
  /\ Touch(k)

NextTick ==
  \/ LoadInitialState
  \/ TickerFire
  \/ TickLoad
  \/ TickVictims
  \/ TickDelete
  \/ TickRemove
  \/ TickSub
  \/ \E k \in Paths : QuietAdd(k)
  \/ \E k \in Paths : QuietTouch(k)

SpecTick == InitEvict /\ [][NextTick]_vars

\* during an undisturbed pass: the victim in hand is the least recently
\* used entry left, currentBytes is still above the limit when it is taken,
\* and it leaves the directory, then the strategy, then currentBytes;
\* between passes the strategy holds exactly the files of the directory
\* and currentBytes is the sum of their sizes
C30_PassState ==
  /\ ev.tick.pc \in {"delete", "remove", "sub"} => ev.currentBytes > ev.maxBytes
  /\ ev.tick.pc \in {"delete", "remove"} =>
       Head(ev.tick.victims) = ev.lru[Len(ev.lru)]
  /\ ev.tick.pc \in {"remove", "sub"} => Head(ev.tick.victims).key \notin ev.disk
  /\ ev.tick.pc = "sub" => Head(ev.tick.victims).key \notin LruKeys(ev.lru)
  /\ (ev.booted /\ ev.tick.pc = "idle") =>
       /\ LruKeys(ev.lru) = ev.disk
       /\ ev.currentBytes = FirstBytes(ev.lru, Len(ev.lru))

\* the step that ends a pass leaves currentBytes at or below the limit, or
\* the strategy empty
C30_PassEnd ==
  (ev.running = 1 /\ ev'.running = 0) =>
    \/ ev'.currentBytes <= ev.maxBytes
    \/ ev'.lru = <<>>

\* C30: a pass of RunEviction under a size limit B that no commit and no
\* read interleaves with deletes the least recently used entries first and
\* stops as soon as currentBytes is at most B; every victim is gone from
\* the directory, the strategy and currentBytes when the pass ends.
C30_QuietTickFreesToLimit == []C30_PassState /\ [][C30_PassEnd]_vars

\* C30 witness: three files of one size and a limit of two of them; the
\* pass has deleted and removed one file, its size is what remains to
\* subtract, and two files are left
C30_Witness ==
  /\ ev.tick.pc = "sub"
  /\ Len(ev.tick.victims) = 1
  /\ Cardinality(ev.disk) = 2
  /\ Len(ev.lru) = 2
  /\ ev.currentBytes = 3 * Head(ev.tick.victims).size
  /\ ev.maxBytes = 2 * Head(ev.tick.victims).size
  /\ \A i \in DOMAIN ev.lru : ev.lru[i].size = Head(ev.tick.victims).size

\* C38: once the tick and every commit have finished, each entry on disk is
\* in the strategy with its size and that size is counted in currentBytes,
\* whatever the interleaving of the tick with commits of the key it evicts:
\* an entry committed again between the tick's Delete and its Remove is not
\* left on disk untracked and uncounted.
C38_CommittedFileTracked ==
  (ev.booted /\ ev.tick.pc = "idle" /\ \A r \in Reqs : ev.w[r].pc = "idle") =>
    \A k \in ev.disk \cap Paths :
      /\ k \in LruKeys(ev.lru)
      /\ LruSize(ev.lru, k) = ev.size[k]
      /\ ev.net[k] = ev.size[k]

\* ------------------------------------------------------------------------
\* The Manager with both policies and with files that cannot be removed,
\* used as above: nothing runs beside RunEviction
\* ------------------------------------------------------------------------
\* a cache file disappears without the program (an operator removes it)
ExternalRemove(k) ==
  /\ ev.booted
  /\ ev.tick.pc = "idle"
  /\ k \in ev.disk
  /\ k \notin ev.undeletable
  /\ ev' = [ev EXCEPT !.disk = @ \ {k}]
  /\ UNCHANGED <<ldb, fs, hu, px, rp, js, upstreams, store, temps, calls, req, commits, cl>>

\* a server started on a directory of entries with any of the two policies
\* configured (NewServer appends maxsize when MaxCacheSize > 0 and minfree
\* when MinFreeSpace > 0); some of the files cannot be removed
InitPolicy ==
  /\ \E disk \in SUBSET Paths, sz \in [Paths -> 1..MaxFileSize],
        maxBytes \in 0..MaxCacheSize, minFree \in 0..MaxMinFree, undeletable \in SUBSET Paths :
       ev = [EvStart(disk, [f \in Files |-> IF f \in Paths THEN sz[f] ELSE 1], maxBytes)
               EXCEPT !.minFree = minFree, !.undeletable = undeletable]
  /\ cl = ClientIdle
  /\ upstreams = <<>>
  /\ store = [p \in Paths |-> NoFile]
  /\ temps = [r \in Reqs |-> NoFile]
  /\ calls = [d \in Digests |-> NoCall]
  /\ req = [r \in Reqs |-> IdleReq]
  /\ commits = [p \in Paths |-> 0]
  /\ px = PxNone
  /\ rp = RpNone
  /\ js = JsNone
  /\ ldb = DbNone
  /\ fs = FsNone
  /\ hu = HuNone

NextPolicy ==
  \/ NextTick
  \/ \E k \in Paths : ExternalRemove(k)

SpecPolicy == InitPolicy /\ [][NextPolicy]_vars

\* what the maxsize policy asks to free at a size, 0 when not configured
MaxSizeAsks(cur) ==
  IF ev.maxBytes > 0 /\ cur > ev.maxBytes THEN cur - ev.maxBytes ELSE 0

\* once the policies have been asked and the pass goes on: the bytes to
\* free are the larger of what maxsize asks and of what minfree asks, a
\* minfree whose Statfs failed asking nothing, and they are more than 0
C31_LoadedState ==
  ev.tick.pc = "loaded" =>
    LET cur == ev.tick.current
        mf == IF ev.minFree > 0 /\ ~ev.tick.stat.err /\ ev.tick.stat.free < ev.minFree
                THEN ev.minFree - ev.tick.stat.free ELSE 0
    IN  /\ ev.tick.toFree = (IF mf > MaxSizeAsks(cur) THEN mf ELSE MaxSizeAsks(cur))
        /\ ev.tick.toFree > 0

\* the step that asks the policies goes on whenever maxsize asks for bytes,
\* whatever minfree does, and when it does not go on nothing is deleted;
\* the step that selects takes victims from the back of the list until the
\* size loaded less their sizes is at most max(0, current - toFree)
C31_PassStep ==
  /\ (ev.tick.pc = "idle" /\ ev.ticker > 0 /\ ev'.ticker = 0) =>
       /\ MaxSizeAsks(ev.currentBytes) > 0 => ev'.tick.pc = "loaded"
       /\ ev'.tick.pc = "idle" =>
            /\ ev'.disk = ev.disk /\ ev'.lru = ev.lru /\ ev'.currentBytes = ev.currentBytes
            /\ MaxSizeAsks(ev.currentBytes) = 0
  /\ (ev.tick.pc = "loaded" /\ ev'.tick.pc # "loaded") =>
       LET cur == ev.tick.current
           t == IF cur - ev.tick.toFree < 0 THEN 0 ELSE cur - ev.tick.toFree
           v == ev'.tick.victims
           n == Len(v)
       IN  /\ ev'.disk = ev.disk /\ ev'.lru = ev.lru
           /\ n <= Len(ev.lru)
           /\ \A i \in 1..n : v[i] = ev.lru[Len(ev.lru) - i + 1]
           /\ cur - FirstBytes(v, n) <= t \/ n = Len(ev.lru)
           /\ n > 0 => cur - FirstBytes(v, n - 1) > t
           /\ ev'.tick.pc = (IF n = 0 THEN "idle" ELSE "delete")

\* C31: a pass frees the maximum of what the configured policies ask for
\* the size loaded, maxsize asking current - B above its limit B and
\* nothing otherwise; a policy whose check fails is passed over and the
\* other still counts; the strategy is asked for victims down to
\* max(0, current - toFree); a maximum of 0 ends the pass with nothing
\* deleted.
C31_MaxOverPolicies == []C31_LoadedState /\ [][C31_PassStep]_vars

\* C31 witness: both policies are configured, Statfs failed, and the pass
\* goes on with what maxsize asks
C31_Witness ==
  /\ ev.tick.pc = "loaded"
  /\ ev.minFree > 0
  /\ ev.maxBytes > 0
  /\ ev.tick.stat.err
  /\ ev.tick.toFree = ev.tick.current - ev.maxBytes

\* while a victim is in hand: Delete returned an error exactly when the
\* file is one that cannot be removed; the key is out of the strategy once
\* Remove ran; a key whose Delete failed at an earlier moment is in no list
\* of victims and not in the strategy
C32_DeleteState ==
  /\ ev.tick.pc \in {"remove", "sub"} =>
       /\ ev.tick.delerr <=> Head(ev.tick.victims).key \in ev.undeletable \cap ev.disk
       /\ ~ev.tick.delerr => Head(ev.tick.victims).key \notin ev.disk
  /\ ev.tick.pc = "sub" => Head(ev.tick.victims).key \notin LruKeys(ev.lru)
  /\ \A k \in ev.leaked :
       /\ k \in ev.disk
       /\ \A i \in DOMAIN ev.tick.victims :
            ev.tick.victims[i].key = k => (i = 1 /\ ev.tick.pc \in {"remove", "sub"})
       /\ k \in LruKeys(ev.lru) =>
            (ev.tick.pc = "remove" /\ Head(ev.tick.victims).key = k)

\* the pass goes from Delete to Remove to the subtraction and on to the next
\* victim whether or not Delete failed, and Delete of a file that is not
\* there returns no error
C32_DeleteStep ==
  /\ (ev.tick.pc = "delete" /\ ev'.tick # ev.tick) =>
       /\ ev'.tick.pc = "remove"
       /\ ev'.tick.victims = ev.tick.victims
       /\ Head(ev.tick.victims).key \notin ev.disk => ~ev'.tick.delerr
  /\ (ev.tick.pc = "remove" /\ ev'.tick # ev.tick) =>
       /\ ev'.tick.pc = "sub"
       /\ ev'.tick.victims = ev.tick.victims
  /\ (ev.tick.pc = "sub" /\ ev'.tick # ev.tick) =>
       /\ ev'.tick.victims = Tail(ev.tick.victims)
       /\ ev'.tick.pc = (IF Len(ev.tick.victims) = 1 THEN "idle" ELSE "delete")

\* C32: a victim whose file cannot be deleted is removed from the strategy
\* all the same, the pass goes on with the victims after it, and no later
\* pass selects that key; Delete of a key whose file is already gone
\* returns no error.
C32_DeleteFailureDropsKey == []C32_DeleteState /\ [][C32_DeleteStep]_vars

\* C32 witness: Delete of the first of two victims failed; its key is out
\* of the strategy, its file is still there, and the second victim is next
C32_Witness ==
  /\ ev.tick.pc = "sub"
  /\ ev.tick.delerr
  /\ Len(ev.tick.victims) = 2
  /\ Head(ev.tick.victims).key \in ev.disk
  /\ Head(ev.tick.victims).key \notin LruKeys(ev.lru)

\* ------------------------------------------------------------------------
\* Properties of the CAS handler: failed fills, the in-flight record,
\* followers that leave
\* ------------------------------------------------------------------------
\* a temp file exists only while its attempt streams, and a follower that
\* was handed an error sent no body: it answered 502 or was aborted
C18_CleanupState ==
  \A r \in Reqs :
    /\ temps[r].present => (req[r].pc = "stream" /\ req[r].role = "leader")
    /\ (req[r].role = "follower" /\ req[r].pc = "done" /\ req[r].sfres # "ok") =>
          /\ req[r].body = <<>>
          /\ \/ req[r].sfres = "err" /\ req[r].status = 502 /\ req[r].end = "returned"
             \/ req[r].sfres = "panic" /\ req[r].status = 0 /\ req[r].end = "aborted"

\* the step in which a fill ends without a commit removes the temp file of
\* the attempt and hands every waiting follower an error or the panic
C18_CleanupStep ==
  \A r \in Reqs :
    (req[r].pc \in {"fetch", "stream"} /\ req'[r].pc \notin {"fetch", "stream"}
       /\ req'[r].fill # "committed") =>
      /\ ~temps'[r].present
      /\ req'[r].fill \in {"allfailed", "writeerr", "readerr", "mismatch", "size", "commitfail"}
      /\ \A x \in Waiters(KeyOf(r)) :
           req'[x].pc = "woken" /\ req'[x].sfres \in {"err", "panic"}

\* C18: a fill attempt that ends without a commit (no source left, failed
\* client write, body read error, digest or size mismatch, commit failure)
\* leaves no temp file behind, and the followers waiting on the fill get an
\* error, never data.
C18_FailedFillCleansUp == [](C18_CleanupState) /\ [][C18_CleanupStep]_vars

\* C18 witness: the commit of a fill failed; its temp file is gone and its
\* follower answered 502
C18_Witness ==
  \E r1, r2 \in Reqs :
    /\ req[r1].fill = "commitfail" /\ req[r1].pc = "done"
    /\ ~temps[r1].present
    /\ req[r2].role = "follower" /\ req[r2].pc = "done" /\ req[r2].status = 502
    /\ KeyOf(r1) = KeyOf(r2)

\* C19: the in-flight record of a digest exists exactly while a fill of the
\* digest is executing: the first miss creates it, the end of the fill, by
\* success, error or abort, removes it with its waiters, and the next miss
\* finds no record and leads a fresh fill.
C19_RecordLivesWithFill ==
  \A k \in Digests :
    /\ calls[k].active <=> Fillers(k) # {}
    /\ ~calls[k].active => (calls[k] = NoCall /\ Waiters(k) = {})
    /\ calls[k].active => calls[k].dups = Cardinality(Waiters(k))

\* C19 witness: a fill of the digest was aborted on a mismatch; a later
\* request leads a new fill of the same digest and is streaming
C19_Witness ==
  \E r1, r2 \in Reqs :
    /\ req[r1].fill = "mismatch" /\ req[r1].pc = "done" /\ req[r1].end = "aborted"
    /\ req[r2].role = "leader" /\ req[r2].pc = "stream" /\ temps[r2].present
    /\ KeyOf(r1) = KeyOf(r2)
    /\ calls[KeyOf(r2)].active

\* the step in which a waiting follower's client leaves changes nothing of
\* the call, of the other requests, of the temp files or of the store
C20_LeaveStep ==
  \A r \in Reqs :
    (req[r].pc = "waiting" /\ ~req[r].gone /\ req'[r].gone) =>
      /\ req'[r].pc = "waiting"
      /\ \A x \in Reqs \ {r} : req'[x] = req[x]
      /\ calls' = calls /\ temps' = temps /\ store' = store

\* a follower whose client left still waits on a running fill
C20_LeaveState ==
  \A r \in Reqs :
    (req[r].pc = "waiting" /\ req[r].gone) =>
      (calls[KeyOf(r)].active /\ Cardinality(Fillers(KeyOf(r))) = 1)

\* C20: a follower that leaves while it waits does not touch the fill: the
\* leader, the call and the temp file are as before, and the fill goes on to
\* stream, verify and commit.
C20_FollowerLeaveKeepsFill == [](C20_LeaveState) /\ [][C20_LeaveStep]_vars

\* C20 witness: the leader committed after its follower's client had left
C20_Witness ==
  \E r1, r2 \in Reqs :
    /\ req[r1].role = "leader" /\ req[r1].fill = "committed"
    /\ req[r2].pc = "woken" /\ req[r2].gone /\ req[r2].sfres = "ok"
    /\ KeyOf(r1) = KeyOf(r2)
    /\ store[PathOf(r1)].present

\* C37: a request that joined the fill of another (a follower) has no
\* headers written by a fill and no temp file, and nothing is sent to it
\* while it waits; the bytes it is sent are those of the committed file at
\* its digest's path, which hash to the digest, under status 200 after the
\* leader returned success; after the leader returned an error it is
\* answered 502 without a body, and after the leader panicked on a mismatch
\* its request is aborted with nothing sent.
C37_FollowerServedFromCache ==
  \A r \in Reqs :
    req[r].role = "follower" =>
      /\ ~req[r].hw
      /\ ~temps[r].present
      /\ req[r].pc \in {"waiting", "woken"} => (req[r].status = 0 /\ req[r].body = <<>>)
      /\ req[r].status = 200 =>
           /\ req[r].sfres = "ok"
           /\ store[PathOf(r)].present
           /\ req[r].clen = Len(store[PathOf(r)].data)
           /\ req[r].body \in {<<>>, store[PathOf(r)].data}
           /\ HexEncode(HashOf(req[r].algo, store[PathOf(r)].data)) = req[r].hash
      /\ req[r].body # <<>> => req[r].status = 200
      /\ req[r].pc = "done" =>
           \/ req[r].sfres = "ok" /\ req[r].status = 200 /\ req[r].end = "returned"
           \/ req[r].sfres = "err" /\ req[r].status = 502 /\ req[r].end = "returned"
           \/ req[r].sfres = "panic" /\ req[r].status = 0 /\ req[r].end = "aborted"

\* C37 witness: the leader streamed a verified body to its own client and
\* committed; its follower was then sent the same bytes from the cache
C37_Witness ==
  \E r1, r2 \in Reqs :
    /\ req[r1].role = "leader" /\ req[r1].fill = "committed" /\ req[r1].pc = "done"
    /\ req[r2].role = "follower" /\ req[r2].pc = "done"
    /\ KeyOf(r1) = KeyOf(r2)
    /\ req[r2].status = 200
    /\ req[r2].body # <<>>
    /\ req[r2].body = req[r1].body

\* while a leader streams, the temp file holds exactly the bytes its client
\* took: no byte is kept that the client write did not accept
C39_StreamState ==
  \A r \in Reqs :
    req[r].pc = "stream" =>
      /\ temps[r].present
      /\ temps[r].data = req[r].body
      /\ req[r].pos = Len(req[r].body)

\* the step in which the leader's client write fails ends the fill: the
\* handler returns, the store and the commit counts are as before, the temp
\* file is gone, the call is forgotten and every waiter is handed the error
C39_WriteErrorStep ==
  \A r \in Reqs :
    (req[r].pc = "stream" /\ req'[r].fill = "writeerr") =>
      /\ req'[r].pc = "done"
      /\ store' = store
      /\ commits' = commits
      /\ ~temps'[r].present
      /\ calls'[KeyOf(r)] = NoCall
      /\ \A x \in Waiters(KeyOf(r)) : req'[x].pc = "woken" /\ req'[x].sfres = "err"

\* C39: a failed write to the leader's client during streaming ends the
\* fill at that byte: nothing is committed, the temp file is removed and
\* every follower waiting on the key receives an error.
C39_ClientWriteErrorStopsFill == []C39_StreamState /\ [][C39_WriteErrorStep]_vars

\* C39 witness: the leader's client took a byte and then went away; the
\* fill ended with nothing at the final path and the follower got 502
C39_Witness ==
  \E r1, r2 \in Reqs :
    /\ req[r1].role = "leader" /\ req[r1].fill = "writeerr" /\ req[r1].pc = "done"
    /\ req[r1].method = "GET"
    /\ req[r1].body # <<>>
    /\ req[r1].clen = -1 \/ Len(req[r1].body) < req[r1].clen
    /\ req[r2].role = "follower" /\ req[r2].pc = "done" /\ req[r2].status = 502
    /\ KeyOf(r1) = KeyOf(r2)
    /\ ~store[PathOf(r1)].present

\* ------------------------------------------------------------------------
\* The JavaScript SDK (sdk/js/fetchurl.js): FetchSession
\* ------------------------------------------------------------------------
\* the server lists and source URL lists a session is constructed with; the
\* second source URL holds a double quote
JsServerLists == {<<>>, <<"up1/">>, <<"up1/", "up2">>}

JsSourceLists == {<<>>, << <<"a">> >>, << <<"a">>, <<"b", "\"">> >>}

\* url.replace(/\\/g, '\\\\').replace(/"/g, '\\"'): a backslash before every
\* backslash and every double quote
RECURSIVE JsEscape(_)
JsEscape(u) ==
  IF u = <<>> THEN <<>>
  ELSE IF Head(u) \in {"\\", "\""} THEN <<"\\", Head(u)>> \o JsEscape(Tail(u))
  ELSE <<Head(u)>> \o JsEscape(Tail(u))

\* encodeSourceUrls: each URL escaped and quoted, joined with ", "
RECURSIVE encodeSourceUrls(_)
encodeSourceUrls(urls) ==
  IF urls = <<>> THEN <<>>
  ELSE <<"\"">> \o JsEscape(Head(urls)) \o <<"\"">>
       \o (IF Len(urls) > 1 THEN <<",", " ">> \o encodeSourceUrls(Tail(urls)) ELSE <<>>)

\* the attempts pushed for the servers: {base}/api/fetchurl/{algo}/{hash},
\* with X-Source-Urls when sourceHeader is truthy
JsServerAttempts(servers, algo, hash, sourceUrls) ==
  [i \in 1..Len(servers) |->
     [url |-> <<TrimRightSlash(servers[i]), "api", "fetchurl", algo>> \o hash,
      headers |-> IF Len(sourceUrls) > 0 /\ encodeSourceUrls(sourceUrls) # <<>>
                    THEN << <<"X-Source-Urls", encodeSourceUrls(sourceUrls)>> >>
                    ELSE <<>>]]

\* the attempts pushed for the shuffled source URLs
JsDirectAttempts(shuffled) ==
  [i \in 1..Len(shuffled) |-> [url |-> shuffled[i], headers |-> <<>>]]

\* new FetchSession({servers, algo, hash, sourceUrls}): throws for an
\* unsupported algorithm, else builds the attempts
JsNew ==
  /\ js.phase = "none"
  /\ \E servers \in JsServerLists, raw \in AlgoNames, h \in Hexes, sourceUrls \in JsSourceLists :
       \E shuffled \in Shuffle(sourceUrls) :
         LET a == NormalizeAlgo(raw)
         IN  js' = IF ~IsSupported(a)
                     THEN [JsNone EXCEPT !.phase = "threw", !.algo = a]
                     ELSE [JsNone EXCEPT !.phase = "live", !.algo = a, !.hash = h,
                                         !.servers = servers, !.sourceUrls = sourceUrls,
                                         !.attempts = JsServerAttempts(servers, a, h, sourceUrls)
                                                      \o JsDirectAttempts(shuffled)]
  /\ UNCHANGED <<ldb, fs, hu, upstreams, store, temps, calls, req, commits, cl, ev, px, rp>>

\* mutant of JsFinished: a report does not end the session
JsFinished_IgnoreDone(s) == s.current >= Len(s.attempts)

\* nextAttempt, the test for null: this.#done or no attempt left
JsFinished(s) == s.done \/ s.current >= Len(s.attempts)

\* session.nextAttempt()
JsNextAttempt ==
  /\ js.phase = "live"
  /\ js' = IF JsFinished(js)
             THEN [js EXCEPT !.call = "nextAttempt", !.ret = NoAttempt]
             ELSE [js EXCEPT !.call = "nextAttempt", !.ret = js.attempts[js.current + 1],
                             !.current = @ + 1,
                             !.yielded = Append(@, js.attempts[js.current + 1])]
  /\ UNCHANGED <<ldb, fs, hu, upstreams, store, temps, calls, req, commits, cl, ev, px, rp>>

\* session.reportSuccess()
JsReportSuccess ==
  /\ js.phase = "live"
  /\ js' = [js EXCEPT !.done = TRUE, !.success = TRUE, !.call = "reportSuccess",
                      !.ret = NoAttempt, !.reported = @ \cup {"success"}]
  /\ UNCHANGED <<ldb, fs, hu, upstreams, store, temps, calls, req, commits, cl, ev, px, rp>>

\* session.reportPartial()
JsReportPartial ==
  /\ js.phase = "live"
  /\ js' = [js EXCEPT !.done = TRUE, !.call = "reportPartial",
                      !.ret = NoAttempt, !.reported = @ \cup {"partial"}]
  /\ UNCHANGED <<ldb, fs, hu, upstreams, store, temps, calls, req, commits, cl, ev, px, rp>>

\* session.succeeded()
succeeded(s) == s.success

InitJs ==
  /\ js = JsNone
  /\ ldb = DbNone
  /\ fs = FsNone
  /\ hu = HuNone
  /\ cl = ClientIdle
  /\ ev = EvNone
  /\ upstreams = <<>>
  /\ store = [p \in Paths |-> NoFile]
  /\ temps = [r \in Reqs |-> NoFile]
  /\ calls = [d \in Digests |-> NoCall]
  /\ req = [r \in Reqs |-> IdleReq]
  /\ commits = [p \in Paths |-> 0]
  /\ px = PxNone
  /\ rp = RpNone

NextJs ==
  \/ JsNew
  \/ JsNextAttempt
  \/ JsReportSuccess
  \/ JsReportPartial

SpecJs == InitJs /\ [][NextJs]_vars

\* is q a rearrangement of p?
IsPermutation(p, q) ==
  /\ Len(p) = Len(q)
  /\ \E f \in [1..Len(p) -> 1..Len(p)] :
       /\ \A i, j \in 1..Len(p) : f[i] = f[j] => i = j
       /\ \A i \in 1..Len(p) : q[i] = p[f[i]]

\* C25: the attempts nextAttempt has returned are the first attempts of the
\* list "one per server in configured order, with the source URLs in
\* X-Source-Urls, then one per source URL without headers", each position
\* once; a call of nextAttempt made after a report, or after the last
\* attempt was returned, returns null; and succeeded() is true only when
\* reportSuccess was called.
C25_SessionOrder ==
  js.phase = "live" =>
    LET ns == Len(js.servers)
        n == Len(js.attempts)
    IN  /\ n = ns + Len(js.sourceUrls)
        /\ \A i \in 1..ns :
             /\ js.attempts[i].url =
                  <<TrimRightSlash(js.servers[i]), "api", "fetchurl", js.algo>> \o js.hash
             /\ js.sourceUrls # <<>> =>
                  js.attempts[i].headers =
                    << <<"X-Source-Urls", encodeSourceUrls(js.sourceUrls)>> >>
             /\ js.sourceUrls = <<>> => js.attempts[i].headers = <<>>
        /\ IsPermutation(js.sourceUrls, [i \in 1..(n - ns) |-> js.attempts[ns + i].url])
        /\ \A i \in (ns + 1)..n : js.attempts[i].headers = <<>>
        /\ Len(js.yielded) <= n
        /\ js.yielded = SubSeq(js.attempts, 1, Len(js.yielded))
        /\ js.call = "nextAttempt" =>
             /\ js.reported # {} => js.ret = NoAttempt
             /\ js.ret = NoAttempt => (js.reported # {} \/ Len(js.yielded) = n)
             /\ js.ret # NoAttempt => js.ret = js.yielded[Len(js.yielded)]
        /\ succeeded(js) <=> "success" \in js.reported

\* C25 witness: two servers and two source URLs; nextAttempt returned both
\* server attempts and one direct attempt, reportPartial was called, and the
\* next call returned null with an attempt left
C25_Witness ==
  /\ js.phase = "live"
  /\ Len(js.servers) = 2
  /\ Len(js.sourceUrls) = 2
  /\ Len(js.yielded) = 3
  /\ js.reported = {"partial"}
  /\ js.call = "nextAttempt"
  /\ js.ret = NoAttempt
  /\ ~succeeded(js)

\* ------------------------------------------------------------------------
\* LocalRepository.Put (internal/repository/local.go, first revision) and
\* GetOrFetch, called concurrently
\* ------------------------------------------------------------------------
\* what a fetcher hands back: its own error (status 0), or a reader with the
\* bytes it delivers and whether it ends in a read error
FetcherOutcomes ==
  {NoResp} \cup {[status |-> 200, clen |-> Len(b), data |-> b, err |-> e] :
                   b \in Bodies, e \in BOOLEAN}

\* mutant of AlreadyThere: the function given to g.Do does not look
AlreadyThere_Never(algo, hash) == FALSE

\* Put, line 106: the check for the entry inside g.Do
AlreadyThere(algo, hash) == Exists(algo, hash)

\* GetOrFetch after its fill step returned err: the error, or the entry
\* read back from the final path
GetOrFetchOut(op, err, file) ==
  IF op = "GetOrFetch" /\ err = NoErr /\ file.present THEN file.data ELSE <<>>

\* g.Do returns err to the caller that ran the function and to every caller
\* waiting on the key; st is the store at that moment
PutFinish(r, err, cause, st) ==
  LET key == sfKey(rp[r].algo, rp[r].hash)
      file == st[getRelPath(rp[r].algo, rp[r].hash)]
  IN  [x \in Reqs |->
         IF x = r \/ (rp[x].pc = "wait" /\ sfKey(rp[x].algo, rp[x].hash) = key)
           THEN [rp[x] EXCEPT !.pc = "done", !.err = err, !.reader = NoResp,
                              !.cause = IF x = r THEN cause ELSE "shared",
                              !.out = GetOrFetchOut(rp[x].op, err, file),
                              !.after = file.present]
           ELSE rp[x]]

\* Put or GetOrFetch is called and reaches g.Do (line 104): the caller runs
\* the function or waits for the call in flight
PutCall(r) ==
  /\ rp[r].pc = "idle"
  /\ \E op \in {"Put", "GetOrFetch"}, d \in Digests :
       LET c == [RpNone[r] EXCEPT !.op = op, !.algo = d[1], !.hash = d[2]]
       IN  IF IsLeader(d)
             THEN /\ rp' = [rp EXCEPT ![r] = [c EXCEPT !.pc = "do", !.role = "leader"]]
                  /\ calls' = [calls EXCEPT ![d] = [active |-> TRUE, dups |-> 0]]
             ELSE /\ rp' = [rp EXCEPT ![r] = [c EXCEPT !.pc = "wait", !.role = "follower"]]
                  /\ calls' = [calls EXCEPT ![d].dups = @ + 1]
  /\ UNCHANGED <<ldb, fs, hu, upstreams, store, temps, req, commits, cl, ev, px, js>>

\* Put, lines 105-115: the double check, then the fetcher
PutFetch(r) ==
  /\ rp[r].pc = "do"
  /\ \E f \in FetcherOutcomes :
       IF AlreadyThere(rp[r].algo, rp[r].hash)
         THEN /\ rp' = PutFinish(r, NoErr, "present", store)
              /\ calls' = Forget(sfKey(rp[r].algo, rp[r].hash))
       ELSE IF f.status = 0
         THEN /\ rp' = [PutFinish(r, ErrOf("ErrUnexpectedEOF"), "fetcher", store)
                          EXCEPT ![r].fetched = @ + 1]
              /\ calls' = Forget(sfKey(rp[r].algo, rp[r].hash))
       ELSE /\ rp' = [rp EXCEPT ![r].pc = "fetched", ![r].reader = f, ![r].fetched = @ + 1]
            /\ calls' = calls
  /\ UNCHANGED <<ldb, fs, hu, upstreams, store, temps, req, commits, cl, ev, px, js>>

\* Put, lines 117-160: directory, temp file, copy through the hasher, the
\* comparison of the digest, close, rename; the temp file is removed on
\* every path (deferred os.Remove)
PutStore(r) ==
  /\ rp[r].pc = "fetched"
  /\ \E fail \in {"none", "mkdir", "temp", "close", "rename"} :
       LET c == rp[r]
           path == getRelPath(c.algo, c.hash)
           cause == IF fail \in {"mkdir", "temp"} THEN fail
                    ELSE IF c.reader.err THEN "copy"
                    ELSE IF HexEncode(HashOf(c.algo, c.reader.data)) # c.hash THEN "mismatch"
                    ELSE fail
           err == IF cause = "none" THEN NoErr
                  ELSE IF cause = "mismatch" THEN ErrOf("hash mismatch")
                  ELSE ErrOf(cause)
           st == IF cause = "none" THEN [store EXCEPT ![path] = File(c.reader.data)] ELSE store
       IN  /\ store' = st
           /\ commits' = IF cause = "none" THEN [commits EXCEPT ![path] = @ + 1] ELSE commits
           /\ rp' = PutFinish(r, err, IF cause = "none" THEN "stored" ELSE cause, st)
           /\ calls' = Forget(sfKey(c.algo, c.hash))
  /\ UNCHANGED <<ldb, fs, hu, upstreams, temps, req, cl, ev, px, js>>

\* the caller is through with the result and may call again
PutAgain(r) ==
  /\ rp[r].pc = "done"
  /\ rp' = [rp EXCEPT ![r] = RpNone[r]]
  /\ UNCHANGED <<ldb, fs, hu, upstreams, store, temps, calls, req, commits, cl, ev, px, js>>

InitPut ==
  /\ rp = RpNone
  /\ cl = ClientIdle
  /\ ev = EvNone
  /\ upstreams = <<>>
  /\ store = [p \in Paths |-> NoFile]
  /\ temps = [r \in Reqs |-> NoFile]
  /\ calls = [d \in Digests |-> NoCall]
  /\ req = [r \in Reqs |-> IdleReq]
  /\ commits = [p \in Paths |-> 0]
  /\ px = PxNone
  /\ js = JsNone
  /\ ldb = DbNone
  /\ fs = FsNone
  /\ hu = HuNone

NextPut == \E r \in Reqs : PutCall(r) \/ PutFetch(r) \/ PutStore(r) \/ PutAgain(r)

SpecPut == InitPut /\ [][NextPut]_vars

\* C26: a caller holds a reader of its fetcher only while the entry is
\* absent, and only the one caller that runs the function for a key ever
\* invokes its fetcher, once; a call that returned no error left a file at
\* the final path whose digest is the one asked for, and GetOrFetch returned
\* its bytes; a call whose fetcher failed returned the fetcher's error
\* itself; a call whose bytes had another digest returned "hash mismatch"
\* and left no file at the final path; no final path is written twice.
C26_PutContract ==
  /\ \A r \in Reqs :
       LET c == rp[r]
           file == store[getRelPath(c.algo, c.hash)]
       IN  /\ c.pc = "fetched" => (~file.present /\ c.fetched = 1)
           /\ c.fetched <= 1
           /\ c.role = "follower" => c.fetched = 0
           /\ (c.pc = "done" /\ c.cause = "present") => c.fetched = 0
           /\ (c.pc = "done" /\ c.err = NoErr) =>
                /\ c.after
                /\ file.present
                /\ HexEncode(HashOf(c.algo, file.data)) = c.hash
                /\ c.op = "GetOrFetch" => c.out = file.data
           /\ (c.pc = "done" /\ c.cause = "fetcher") => c.err = ErrOf("ErrUnexpectedEOF")
           /\ (c.pc = "done" /\ c.cause = "mismatch") =>
                (c.err = ErrOf("hash mismatch") /\ ~c.after)
           /\ (c.pc = "done" /\ c.err # NoErr) => c.out = <<>>
  /\ \A d \in Digests :
       /\ Cardinality({r \in Reqs : rp[r].pc \in {"do", "fetched"}
                                    /\ sfKey(rp[r].algo, rp[r].hash) = d}) <= 1
       /\ commits[getRelPath(d[1], d[2])] <= 1

\* C26 witness: two concurrent calls for one key; the fetcher of the one that
\* ran delivered bytes of another digest, both returned "hash mismatch", the
\* waiting GetOrFetch never invoked its fetcher, and the final path is empty
C26_Witness ==
  \E r1, r2 \in Reqs :
    /\ rp[r1].pc = "done" /\ rp[r2].pc = "done"
    /\ rp[r1].cause = "mismatch"
    /\ rp[r2].cause = "shared"
    /\ rp[r2].op = "GetOrFetch"
    /\ rp[r2].err = ErrOf("hash mismatch")
    /\ rp[r2].fetched = 0
    /\ sfKey(rp[r1].algo, rp[r1].hash) = sfKey(rp[r2].algo, rp[r2].hash)
    /\ ~store[getRelPath(rp[r1].algo, rp[r1].hash)].present

\* ------------------------------------------------------------------------
\* The proxy (internal/proxy): rules and Server.handleRequest
\* ------------------------------------------------------------------------
\* request URLs, as site, first path segment and second path segment: a URL
\* with sha256/{hex} in its path, the npm metadata URL of a package, the URL
\* of its tarball, and a URL no rule knows
UrlTarball == [site |-> "registry.npmjs.org", dir |-> "pkg", name |-> <<"t">>]

PxUrls ==
  {[site |-> "example.com", dir |-> "sha256", name |-> h] : h \in Hexes}
  \cup {[site |-> "registry.npmjs.org", dir |-> "pkg", name |-> <<>>],
        UrlTarball,
        [site |-> "example.com", dir |-> "other", name |-> <<>>]}

\* the rule lists of a server: NewServer's (regex, DB rule sha256, DB rule
\* sha1), one that starts with the npm learning rule, and one that starts
\* with the multi-algo DB rule
PxRuleLists ==
  { <<[kind |-> "regex", algo |-> <<"s", "h", "a", "2", "5", "6">>],
      [kind |-> "db", algo |-> <<"s", "h", "a", "2", "5", "6">>],
      [kind |-> "db", algo |-> Sha1]>>,
    <<[kind |-> "npm", algo |-> Sha1],
      [kind |-> "regex", algo |-> <<"s", "h", "a", "2", "5", "6">>],
      [kind |-> "db", algo |-> Sha1]>>,
    <<[kind |-> "dbmulti", algo |-> <<>>],
      [kind |-> "db", algo |-> Sha1]>> }

\* what the registry does with the learning rule's GET: the request fails,
\* a status other than 200, a body that cannot be read, a body that is no
\* JSON, or metadata naming the tarball with a shasum; insertOK says whether
\* InsertHash succeeds
NpmOutcomes ==
  {[get |-> g, shasum |-> HexEncode(0), insertOK |-> FALSE] :
     g \in {"neterr", "status", "readerr", "badjson"}}
  \cup {[get |-> "ok", shasum |-> h, insertOK |-> b] : h \in Hexes, b \in BOOLEAN}

\* NewRegexRule with sha256/(?P<hash>[a-f0-9]+): the hash group
RegexRule(rule, u) ==
  IF /\ u.dir = "sha256"
     /\ u.name # <<>>
     /\ \A i \in DOMAIN u.name : \E j \in DOMAIN HexDigit : HexDigit[j] = u.name[i]
    THEN <<[algo |-> rule.algo, hash |-> u.name]>>
    ELSE <<>>

\* NewDBRule: the hash recorded for the URL and the rule's algorithm
DBRule(rule, u, db) ==
  LET rows == {row \in db : row.url = u /\ row.algo = rule.algo}
  IN  IF rows = {} THEN <<>>
      ELSE <<[algo |-> rule.algo, hash |-> (CHOOSE row \in rows : TRUE).hash]>>

\* mutant of AlgoPriority: sha1 is preferred to sha512
AlgoPriority_Sha1Second(algo) ==
  IF algo = <<"s", "h", "a", "2", "5", "6">> THEN 1
  ELSE IF algo = Sha1 THEN 2
  ELSE IF algo = <<"s", "h", "a", "5", "1", "2">> THEN 3
  ELSE 4

\* GetAllHashes: the CASE of the ORDER BY
AlgoPriority(algo) ==
  IF algo = <<"s", "h", "a", "2", "5", "6">> THEN 1
  ELSE IF algo = <<"s", "h", "a", "5", "1", "2">> THEN 2
  ELSE IF algo = Sha1 THEN 3
  ELSE 4

\* the rows of a set as a sequence, in some order
RECURSIVE SomeOrder(_)
SomeOrder(S) ==
  IF S = {} THEN <<>>
  ELSE LET x == CHOOSE y \in S : TRUE IN <<x>> \o SomeOrder(S \ {x})

\* GetAllHashes: SELECT algo, hash FROM urls WHERE url = ? ORDER BY the
\* priority of the algo
GetAllHashes(rows, u) ==
  LET class(p) == SomeOrder({x \in rows : x.url = u /\ AlgoPriority(x.algo) = p})
  IN  class(1) \o class(2) \o class(3) \o class(4)

\* NewDBMultiRule: a candidate for every row GetAll returned, in its order;
\* nil when the query failed or returned nothing
DBMultiRule(rows, u, err) ==
  IF err THEN <<>>
  ELSE LET hashes == GetAllHashes(rows, u)
       IN  [i \in DOMAIN hashes |-> [algo |-> hashes[i].algo, hash |-> hashes[i].hash]]

\* mutant of NpmResults: the learning rule hands back what it learned
NpmResults_Learned(u, out) ==
  IF out.get = "ok" THEN <<[algo |-> Sha1, hash |-> out.shasum]>> ELSE <<>>

\* NewNpmLearningRule: what the rule returns, on every path nil
NpmResults(u, out) == <<>>

\* NewNpmLearningRule: does the URL match registryRegex
\* ^https?://registry\.npmjs\.org/[^/]+/?$
IsNpmMetadata(u) == u.site = "registry.npmjs.org" /\ u.dir # "" /\ u.name = <<>>

\* NewNpmLearningRule: the link rows after the rule ran
NpmLearn(u, out, db) ==
  IF IsNpmMetadata(u) /\ out.get = "ok" /\ out.insertOK
    THEN {row \in db : ~(row.url = UrlTarball /\ row.algo = Sha1)}
         \cup {[url |-> UrlTarball, algo |-> Sha1, hash |-> out.shasum]}
    ELSE db

\* mutant of PxCached: the entry is never found
PxCached_Never(cache, d) == FALSE

\* is the candidate in the repository
PxCached(cache, d) == cache[d].present

\* s.Local.GetOrFetch with the fetcher's outcome f: the entry, or the bytes
\* fetched once they are verified and committed, or an error
PxGetOrFetch(cache, d, f) ==
  IF PxCached(cache, d) THEN [ok |-> TRUE, fetched |-> FALSE, cache |-> cache]
  ELSE IF f.status = 0 \/ f.err \/ HexEncode(HashOf(d[1], f.data)) # d[2]
    THEN [ok |-> FALSE, fetched |-> TRUE, cache |-> cache]
  ELSE [ok |-> TRUE, fetched |-> TRUE, cache |-> [cache EXCEPT ![d] = File(f.data)]]

\* newResponse: 200 with the entry as body
newResponse(file) ==
  [status |-> 200, body |-> file.data,
   cacheControl |-> "public, max-age=31536000, immutable"]

\* mutant of AfterCandidates: the loop over the rules goes on
AfterCandidates_NextRule(q) == [q EXCEPT !.pc = "rules", !.ri = @ + 1]

\* handleRequest, lines 91-93: every candidate of the rule failed
AfterCandidates(q) == [q EXCEPT !.pc = "done", !.resp = NoPxResp]

\* goproxy calls handleRequest for an intercepted request
PxArrive ==
  /\ px.pc \in {"idle", "done"}
  /\ px.rules # <<>>
  /\ \E u \in PxUrls :
       px' = [PxStart(px.rules, px.db) EXCEPT !.pc = "rules", !.cache = px.cache,
                                              !.before = px.cache, !.url = u, !.ri = 1]
  /\ UNCHANGED <<ldb, fs, hu, upstreams, store, temps, calls, req, commits, cl, ev, rp, js>>

\* handleRequest, lines 55-59 and 96-97: the next rule is called; without
\* results the loop goes on, and after the last rule the request passes
PxRule ==
  /\ px.pc = "rules"
  /\ \E out \in NpmOutcomes :
       IF px.ri > Len(px.rules)
         THEN px' = [px EXCEPT !.pc = "done", !.resp = NoPxResp]
         ELSE LET rule == px.rules[px.ri]
                  res == IF rule.kind = "regex" THEN RegexRule(rule, px.url)
                         ELSE IF rule.kind = "db" THEN DBRule(rule, px.url, px.db)
                         ELSE IF rule.kind = "dbmulti" THEN DBMultiRule(px.db, px.url, FALSE)
                         ELSE IF IsNpmMetadata(px.url) THEN NpmResults(px.url, out)
                         ELSE <<>>
                  q == [px EXCEPT !.ran = Append(@, px.ri), !.results = Append(@, res),
                                  !.db = IF rule.kind = "npm" THEN NpmLearn(px.url, out, @) ELSE @,
                                  !.learned = IF rule.kind = "npm" /\ IsNpmMetadata(px.url)
                                                THEN @ + 1 ELSE @]
              IN  px' = IF res = <<>>
                          THEN [q EXCEPT !.ri = @ + 1]
                          ELSE [q EXCEPT !.pc = "try", !.ci = 1]
  /\ UNCHANGED <<ldb, fs, hu, upstreams, store, temps, calls, req, commits, cl, ev, rp, js>>

\* handleRequest, lines 62-93: the next candidate of the rule that matched:
\* GetOrFetch with the request URL as the only source, then the response,
\* the next candidate, or nil when none is left
PxTry ==
  /\ px.pc = "try"
  /\ \E f \in FetcherOutcomes :
       LET res == px.results[Len(px.results)]
       IN  IF px.ci > Len(res)
             THEN px' = AfterCandidates(px)
             ELSE LET d == <<res[px.ci].algo, res[px.ci].hash>>
                      hit == PxCached(px.cache, d)
                      g == PxGetOrFetch(px.cache, d, f)
                      q == [px EXCEPT !.cache = g.cache, !.cands = Append(@, d),
                                      !.fetches = IF g.fetched
                                                    THEN Append(@, [digest |-> d, sources |-> <<px.url>>])
                                                    ELSE @]
                  IN  px' = IF g.ok
                              THEN [q EXCEPT !.pc = "done", !.served = [digest |-> d, hit |-> hit],
                                             !.resp = newResponse(g.cache[d])]
                              ELSE [q EXCEPT !.ci = @ + 1]
  /\ UNCHANGED <<ldb, fs, hu, upstreams, store, temps, calls, req, commits, cl, ev, rp, js>>

InitProxy ==
  /\ \E rules \in PxRuleLists,
        db \in {{}, {[url |-> UrlTarball, algo |-> Sha1, hash |-> HexEncode(0)]},
                 {[url |-> UrlTarball, algo |-> Sha1, hash |-> HexEncode(0)],
                  [url |-> UrlTarball, algo |-> <<"s", "h", "a", "2", "5", "6">>,
                   hash |-> HexEncode(1)]}} :
       px = PxStart(rules, db)
  /\ cl = ClientIdle
  /\ ev = EvNone
  /\ upstreams = <<>>
  /\ store = [p \in Paths |-> NoFile]
  /\ temps = [r \in Reqs |-> NoFile]
  /\ calls = [d \in Digests |-> NoCall]
  /\ req = [r \in Reqs |-> IdleReq]
  /\ commits = [p \in Paths |-> 0]
  /\ rp = RpNone
  /\ js = JsNone
  /\ ldb = DbNone
  /\ fs = FsNone
  /\ hu = HuNone

NextProxy == PxArrive \/ PxRule \/ PxTry

SpecProxy == InitProxy /\ [][NextProxy]_vars

\* C23: the rules called for a request are the first ones of the list, in
\* order, and only the last of them returned candidates; a request answered
\* by the proxy got 200 with the bytes of a candidate of that rule, which
\* are in the cache and have the candidate's digest; if the candidate was
\* cached when it was tried the fetch service was not called for it, else
\* it was called with the request URL as its only source and the bytes were
\* committed; a request for which no rule returned a candidate gets no
\* response from the proxy, no fetch, and leaves the cache as it was.
C23_ProxyServesOrPasses ==
  px.pc = "done" =>
    LET n == Len(px.ran)
    IN  /\ px.ran = [i \in 1..n |-> i]
        /\ \A i \in 1..(n - 1) : px.results[i] = <<>>
        /\ \A i \in DOMAIN px.fetches : px.fetches[i].sources = <<px.url>>
        /\ px.resp # NoPxResp =>
             LET d == px.served.digest
             IN  /\ px.resp.status = 200
                 /\ \E i \in DOMAIN px.results[n] :
                      d = <<px.results[n][i].algo, px.results[n][i].hash>>
                 /\ px.cache[d].present
                 /\ px.resp.body = px.cache[d].data
                 /\ HexEncode(HashOf(d[1], px.resp.body)) = d[2]
                 /\ px.served.hit =>
                      /\ px.before[d] = px.cache[d]
                      /\ \A i \in DOMAIN px.fetches : px.fetches[i].digest # d
                 /\ ~px.served.hit =>
                      /\ ~px.before[d].present
                      /\ px.fetches # <<>>
                      /\ px.fetches[Len(px.fetches)].digest = d
        /\ (\A i \in 1..n : px.results[i] = <<>>) =>
             /\ n = Len(px.rules)
             /\ px.resp = NoPxResp
             /\ px.fetches = <<>>
             /\ px.cache = px.before

\* C23 witness: a request whose candidate was cached by an earlier request
\* is answered from the cache, no fetch made
C23_Witness ==
  /\ px.pc = "done"
  /\ px.resp # NoPxResp
  /\ px.served.hit
  /\ px.fetches = <<>>
  /\ px.resp.body # <<>>
  /\ Len(px.ran) > 1

\* C40: when a request has been handled, the rules before the last one
\* called returned nothing; if the last one returned candidates, the
\* candidates tried are the first ones it returned, in its order, each
\* tried once; a response is built on the last candidate tried; and if
\* none could be served all of them were tried and the request goes to the
\* origin with no further rule called.  If no rule returned a candidate,
\* none was tried.
C40_FirstMatchingRuleDecides ==
  px.pc = "done" =>
    LET n == Len(px.ran)
        res == IF n = 0 THEN <<>> ELSE px.results[n]
        offered == [i \in DOMAIN res |-> <<res[i].algo, res[i].hash>>]
    IN  /\ Len(px.results) = n
        /\ \A i \in 1..(n - 1) : px.results[i] = <<>>
        /\ Len(px.cands) <= Len(offered)
        /\ px.cands = SubSeq(offered, 1, Len(px.cands))
        /\ px.resp # NoPxResp =>
             (px.cands # <<>> /\ px.served.digest = px.cands[Len(px.cands)])
        /\ px.resp = NoPxResp => px.cands = offered
        /\ res # <<>> => px.ran = [i \in 1..n |-> i]

\* C40 witness: the multi-algo rule returned two candidates, neither could
\* be fetched, and the request went to the origin although the next rule
\* has a candidate for the URL
C40_Witness ==
  /\ px.pc = "done"
  /\ px.resp = NoPxResp
  /\ Len(px.ran) = 1
  /\ Len(px.cands) = 2
  /\ px.cands[1][1] = <<"s", "h", "a", "2", "5", "6">>
  /\ px.cands[2][1] = Sha1
  /\ Len(px.fetches) = 2
  /\ Len(px.rules) > 1
  /\ DBRule(px.rules[2], px.url, px.db) # <<>>

\* C24: whatever the registry answers and whether or not the rows are
\* stored, the learning rule returns no candidate; a request answered by
\* the proxy was answered on the candidates of another rule.
C24_LearningRuleReturnsNothing ==
  /\ \A i \in DOMAIN px.results :
       px.rules[px.ran[i]].kind = "npm" => px.results[i] = <<>>
  /\ (px.pc \in {"try", "done"} /\ px.resp # NoPxResp) =>
       px.rules[px.ran[Len(px.ran)]].kind # "npm"
  /\ px.pc = "try" => px.rules[px.ran[Len(px.ran)]].kind # "npm"

\* C24 witness: the learning rule fetched the metadata and stored a row for
\* the tarball, and the metadata request went on to the origin
C24_Witness ==
  /\ px.pc = "done"
  /\ px.learned = 1
  /\ IsNpmMetadata(px.url)
  /\ \E row \in px.db : row.url = UrlTarball /\ row.hash = HexEncode(1)
  /\ px.resp = NoPxResp

\* ------------------------------------------------------------------------
\* hashutil as a library: NormalizeAlgo, IsSupported, GetHasher on any name
\* ------------------------------------------------------------------------
\* the names given: every string of at most MaxNameLen runes out of an upper
\* case letter, a lower case letter, a digit, a dash and a rune outside
\* ASCII, and spellings of the registered names and of their neighbours
HuNames ==
  SeqsUpTo({"S", "a", "1", "-", "é"}, MaxNameLen)
  \cup registry
  \cup AlgoNames
  \cup { <<"S", "H", "A", "1">>, <<"s", "h", "a", "-", "1">>, <<"S", "h", "a", "_", "5", "1", "2">>,
         <<"s", "h", "a", " ", "2", "5", "6">>, <<"S", "H", "A", "2", "5", "6">>,
         <<"s", "h", "a", "2", "5", "6", "0">>, <<"s", "h", "a", "2", "5">>,
         <<"s", "h", "a", "5", "1", "2", "é">>, <<"-", "s", "h", "a", "1", "-">>,
         <<"s", "h", "a", "3">>, <<"S", "H", "A">> }

\* a caller normalizes a name, normalizes the result again, and asks
\* IsSupported and GetHasher about the name
HuCall ==
  /\ \E name \in HuNames :
       hu' = [ pc |-> "done", name |-> name, norm |-> NormalizeAlgo(name),
               again |-> NormalizeAlgo(NormalizeAlgo(name)),
               supported |-> IsSupported(name), hasher |-> GetHasher(name) ]
  /\ UNCHANGED <<ldb, fs, upstreams, store, temps, calls, req, commits, cl, ev, px, rp, js>>

InitAlgo ==
  /\ hu = HuNone
  /\ ldb = DbNone
  /\ fs = FsNone
  /\ js = JsNone
  /\ px = PxNone
  /\ rp = RpNone
  /\ cl = ClientIdle
  /\ ev = EvNone
  /\ upstreams = <<>>
  /\ store = [p \in Paths |-> NoFile]
  /\ temps = [r \in Reqs |-> NoFile]
  /\ calls = [d \in Digests |-> NoCall]
  /\ req = [r \in Reqs |-> IdleReq]
  /\ commits = [p \in Paths |-> 0]

NextAlgo == HuCall

SpecAlgo == InitAlgo /\ [][NextAlgo]_vars

\* C36: for every name, normalizing the normal form gives the normal form
\* again; the normal form holds only lower case ASCII letters and digits;
\* IsSupported is true, and GetHasher returns a hasher, exactly for the
\* names whose normal form is sha1, sha256 or sha512.
C36_NormalizeIdempotent ==
  hu.pc = "done" =>
    /\ hu.again = hu.norm
    /\ \A i \in DOMAIN hu.norm :
         hu.norm[i] \in {"a", "b", "c", "d", "e", "f", "g", "h", "i", "j", "k", "l", "m",
                         "n", "o", "p", "q", "r", "s", "t", "u", "v", "w", "x", "y", "z",
                         "0", "1", "2", "3", "4", "5", "6", "7", "8", "9"}
    /\ hu.supported <=>
         hu.norm \in {<<"s", "h", "a", "1">>, <<"s", "h", "a", "2", "5", "6">>,
                      <<"s", "h", "a", "5", "1", "2">>}
    /\ ~hu.hasher.err <=> hu.supported
    /\ ~hu.hasher.err => hu.hasher.factory = hu.norm

\* C36 witness: a name in mixed case with a separator is normalized to
\* sha512 and accepted
C36_Witness ==
  /\ hu.pc = "done"
  /\ hu.name = <<"S", "h", "a", "_", "5", "1", "2">>
  /\ hu.norm = <<"s", "h", "a", "5", "1", "2">>
  /\ hu.supported
  /\ ~hu.hasher.err

\* ------------------------------------------------------------------------
\* The link database (internal/db) and the rules and learners that use it
\* ------------------------------------------------------------------------
\* a second tarball of the package, and the URLs with rows
UrlTarball2 == [site |-> "registry.npmjs.org", dir |-> "pkg", name |-> <<"u">>]

DbUrls == {UrlTarball, UrlTarball2}

\* the algorithm names rows are stored under: the three the ORDER BY names
\* and one it does not
DbAlgos ==
  {<<"s", "h", "a", "2", "5", "6">>, <<"s", "h", "a", "5", "1", "2">>, Sha1, <<"m", "d", "5">>}

\* the key on which INSERT OR REPLACE replaces: (url, algo)
UrlsKey(row) == <<row.url, row.algo>>

\* InsertHash: INSERT OR REPLACE INTO urls (url, hash, algo)
InsertHash(rows, row) ==
  {x \in rows : UrlsKey(x) # UrlsKey(row)} \cup {row}

\* InsertHash for each row of a set, in some order
RECURSIVE InsertEach(_, _)
InsertEach(rows, todo) ==
  IF todo = {} THEN rows
  ELSE LET row == CHOOSE x \in todo : TRUE
       IN  InsertEach(InsertHash(rows, row), todo \ {row})

\* the entries maps DB.Insert is called with for an algorithm, as rows: a
\* hash for some of the URLs; only sha1 rows are made for the second tarball
DbEntries(algo) ==
  LET urls == IF algo = Sha1 THEN DbUrls ELSE {UrlTarball}
      maps == [urls -> Hexes \cup {<<>>}]
  IN  {{[url |-> u, algo |-> algo, hash |-> m[u]] : u \in {x \in urls : m[x] # <<>>}} :
         m \in maps} \ {{}}

\* DB.Insert: the table after the call; fail names where it failed, if it
\* did: BeginTx, the InsertHash of a row, or Commit.  The deferred
\* Rollback undoes the rows of a transaction that did not commit
TxRows(rows, entries, fail) ==
  IF fail = "none" THEN InsertEach(rows, entries) ELSE rows

\* history: the hash of the latest insert that took effect, by URL and algo
LastAfter(last, stored) ==
  [k \in DOMAIN last \cup {<<x.url, x.algo>> : x \in stored} |->
     IF \E x \in stored : <<x.url, x.algo>> = k
       THEN (CHOOSE x \in stored : <<x.url, x.algo>> = k).hash
       ELSE last[k]]

\* DB.Insert(ctx, algo, entries)
DbInsert ==
  /\ \E algo \in DbAlgos :
       \E entries \in DbEntries(algo), fail \in {"none", "begin", "row", "commit"} :
         ldb' = [ldb EXCEPT !.op = "insert", !.batch = entries, !.before = ldb.rows,
                            !.err = (fail # "none"), !.url = DbNone.url, !.results = <<>>,
                            !.rows = TxRows(ldb.rows, entries, fail),
                            !.last = IF fail = "none" THEN LastAfter(ldb.last, entries) ELSE @]
  /\ UNCHANGED <<fs, hu, upstreams, store, temps, calls, req, commits, cl, ev, px, rp, js>>

\* the versions of a metadata document: a tarball URL and a shasum for each,
\* either of which may be empty
DbVersions ==
  {{[tarball |-> IF m[u] = <<>> THEN DbNone.url ELSE u, shasum |-> m[u]] : u \in DbUrls} :
     m \in [DbUrls -> Hexes \cup {<<>>}]}

\* the learners (NewNpmLearningRule, NewNpmResponseHandler) after the JSON
\* is parsed: InsertHash for every version with a tarball and a shasum, each
\* on its own; a failed insert is logged and the loop goes on
DbLearn ==
  /\ \E versions \in DbVersions :
       LET batch == {[url |-> v.tarball, algo |-> Sha1, hash |-> v.shasum] :
                       v \in {x \in versions : x.tarball # DbNone.url /\ x.shasum # <<>>}}
       IN  \E failed \in SUBSET batch :
             ldb' = [ldb EXCEPT !.op = "learn", !.batch = batch, !.before = ldb.rows,
                                !.err = (failed # {}), !.url = DbNone.url, !.results = <<>>,
                                !.rows = InsertEach(ldb.rows, batch \ failed),
                                !.last = LastAfter(ldb.last, batch \ failed)]
  /\ UNCHANGED <<fs, hu, upstreams, store, temps, calls, req, commits, cl, ev, px, rp, js>>

\* the multi-algo rule is called for a URL
DbGetAll ==
  /\ \E u \in DbUrls \cup {[site |-> "example.com", dir |-> "other", name |-> <<>>]},
        err \in BOOLEAN :
       ldb' = [ldb EXCEPT !.op = "getall", !.batch = {}, !.before = ldb.rows,
                          !.err = err, !.url = u, !.results = DBMultiRule(ldb.rows, u, err)]
  /\ UNCHANGED <<fs, hu, upstreams, store, temps, calls, req, commits, cl, ev, px, rp, js>>

InitDb ==
  /\ ldb = DbNone
  /\ hu = HuNone
  /\ fs = FsNone
  /\ js = JsNone
  /\ px = PxNone
  /\ rp = RpNone
  /\ cl = ClientIdle
  /\ ev = EvNone
  /\ upstreams = <<>>
  /\ store = [p \in Paths |-> NoFile]
  /\ temps = [r \in Reqs |-> NoFile]
  /\ calls = [d \in Digests |-> NoCall]
  /\ req = [r \in Reqs |-> IdleReq]
  /\ commits = [p \in Paths |-> 0]

NextDb == DbInsert \/ DbLearn \/ DbGetAll

SpecDb == InitDb /\ [][NextDb]_vars

\* C34 (as claimed): after a call that stores a batch of rows, by DB.Insert
\* or by a learner, every row of the batch is in the table or the table is
\* as it was before the call.
C34_BatchAllOrNothing ==
  ldb.op \in {"insert", "learn"} =>
    \/ ldb.batch \subseteq ldb.rows
    \/ ldb.rows = ldb.before

\* C35: what the multi-algo rule returns for a URL when the query succeeds
\* is one candidate for each algo under which a hash was stored for the
\* URL, carrying the hash stored last, and nothing else, with every sha256
\* candidate before every sha512 one, those before every sha1 one and those
\* before every other; for a URL nothing was stored for it returns nothing.
\* The table holds at most one row for a URL and an algo.
C35_MultiRuleOrdered ==
  /\ \A x, y \in ldb.rows : (x.url = y.url /\ x.algo = y.algo) => x = y
  /\ (ldb.op = "getall" /\ ~ldb.err) =>
       LET res == ldb.results
           rank(a) == IF a = <<"s", "h", "a", "2", "5", "6">> THEN 1
                      ELSE IF a = <<"s", "h", "a", "5", "1", "2">> THEN 2
                      ELSE IF a = <<"s", "h", "a", "1">> THEN 3 ELSE 4
       IN  /\ {<<res[i].algo, res[i].hash>> : i \in DOMAIN res}
                = {<<k[2], ldb.last[k]>> : k \in {x \in DOMAIN ldb.last : x[1] = ldb.url}}
           /\ \A i, j \in DOMAIN res : i < j => res[i].algo # res[j].algo
           /\ \A i, j \in DOMAIN res : i < j => rank(res[i].algo) <= rank(res[j].algo)
           /\ (\A k \in DOMAIN ldb.last : k[1] # ldb.url) => res = <<>>

\* C35 witness: the URL has a row under each of four algorithms and the rule
\* returned them as sha256, sha512, sha1, md5
C35_Witness ==
  /\ ldb.op = "getall"
  /\ ~ldb.err
  /\ Len(ldb.results) = 4
  /\ ldb.results[1].algo = <<"s", "h", "a", "2", "5", "6">>
  /\ ldb.results[2].algo = <<"s", "h", "a", "5", "1", "2">>
  /\ ldb.results[3].algo = <<"s", "h", "a", "1">>
  /\ ldb.results[4].algo = <<"m", "d", "5">>

\* ------------------------------------------------------------------------
\* The fetch service (internal/fetcher): Service.Fetch
\* ------------------------------------------------------------------------
\* the upstream lists a service is built with (NewUpstreamRepository has
\* trimmed the slashes) and the queryUrls a caller passes; "%" is a URL that
\* http.NewRequest refuses
FsUpstreamLists == {<<>>, <<"up1">>, <<"up1", "up2">>}

FsQueryLists == {<<>>, << <<"a">> >>, << <<"%">>, <<"a">> >>, << <<"a">>, <<"b">> >>}

\* what a source does with a GET: the request fails, a status other than
\* 200, or 200 with a body and a Content-Length, which may be unknown
FsAnswers ==
  {[status |-> 0, clen |-> 0, data |-> <<>>], [status |-> 404, clen |-> 0, data |-> <<>>]}
  \cup {[status |-> 200, clen |-> Len(b), data |-> b] : b \in SeqsUpTo(Bytes, 1)}
  \cup {[status |-> 200, clen |-> -1, data |-> <<1>>]}

\* UpstreamRepository.Get: the URL {BaseURL}/fetch/{algo}/{hash}
FsUpstreamUrl(base, algo, hash) == <<base, "fetch", algo>> \o hash

\* mutant of FsSources: the query URLs come before the upstreams
FsSources_UrlsFirst(ups, urls, algo, hash) ==
  urls \o [k \in DOMAIN ups |-> FsUpstreamUrl(ups[k], algo, hash)]

\* Service.Fetch: the sources in the order of its two loops
FsSources(ups, urls, algo, hash) ==
  [k \in DOMAIN ups |-> FsUpstreamUrl(ups[k], algo, hash)] \o urls

\* a caller calls Fetch(ctx, algo, hash, queryUrls)
FsCall ==
  /\ fs.pc = "idle"
  /\ \E ups \in FsUpstreamLists, urls \in FsQueryLists, h \in Hexes :
       LET a == <<"s", "h", "a", "2", "5", "6">>
           srcs == FsSources(ups, urls, a, h)
       IN  \E answers \in [{srcs[k] : k \in DOMAIN srcs} -> FsAnswers] :
             fs' = [FsNone EXCEPT !.pc = "try", !.algo = a, !.hash = h, !.ups = ups,
                                  !.urls = urls, !.answers = answers, !.i = 1]
  /\ UNCHANGED <<ldb, hu, upstreams, store, temps, calls, req, commits, cl, ev, px, rp, js>>

\* one turn of either loop: the source is asked; 200 returns its body and
\* its Content-Length, anything else moves on; a query URL no request can
\* be made for is skipped
FsTry ==
  /\ fs.pc = "try"
  /\ fs.i <= Len(FsSources(fs.ups, fs.urls, fs.algo, fs.hash))
  /\ LET u == FsSources(fs.ups, fs.urls, fs.algo, fs.hash)[fs.i]
         resp == fs.answers[u]
     IN  fs' = IF u = <<"%">>
                 THEN [fs EXCEPT !.i = @ + 1]
               ELSE IF resp.status = 200
                 THEN [fs EXCEPT !.pc = "done", !.gets = Append(@, u),
                                 !.ret = [err |-> "nil", body |-> resp.data,
                                          size |-> resp.clen, from |-> u]]
               ELSE [fs EXCEPT !.i = @ + 1, !.gets = Append(@, u)]
  /\ UNCHANGED <<ldb, hu, upstreams, store, temps, calls, req, commits, cl, ev, px, rp, js>>

\* both loops ended: "hash not found in upstreams or query URLs"
FsNotFound ==
  /\ fs.pc = "try"
  /\ fs.i > Len(FsSources(fs.ups, fs.urls, fs.algo, fs.hash))
  /\ fs' = [fs EXCEPT !.pc = "done", !.ret.err = "not found"]
  /\ UNCHANGED <<ldb, hu, upstreams, store, temps, calls, req, commits, cl, ev, px, rp, js>>

InitFetch ==
  /\ fs = FsNone
  /\ ldb = DbNone
  /\ hu = HuNone
  /\ js = JsNone
  /\ px = PxNone
  /\ rp = RpNone
  /\ cl = ClientIdle
  /\ ev = EvNone
  /\ upstreams = <<>>
  /\ store = [p \in Paths |-> NoFile]
  /\ temps = [r \in Reqs |-> NoFile]
  /\ calls = [d \in Digests |-> NoCall]
  /\ req = [r \in Reqs |-> IdleReq]
  /\ commits = [p \in Paths |-> 0]

NextFetch == FsCall \/ FsTry \/ FsNotFound

SpecFetch == InitFetch /\ [][NextFetch]_vars

\* C33: when Fetch has returned, the GETs it sent went to the upstreams'
\* URLs in the configured order and then to the query URLs in the given
\* order, up to and including the first source that answered 200; it
\* returned that source's body and Content-Length as they came, whether or
\* not the body has the digest asked for; it returned the not-found error
\* exactly when no source answered 200, after asking every one.
C33_FetchOrder ==
  fs.pc = "done" =>
    LET all == [k \in DOMAIN fs.ups |-> <<fs.ups[k], "fetch", fs.algo>> \o fs.hash]
                 \o SelectSeq(fs.urls, LAMBDA u : u # <<"%">>)
        good == {k \in DOMAIN all : fs.answers[all[k]].status = 200}
        first == CHOOSE k \in good : \A j \in good : k <= j
    IN  IF good = {}
          THEN /\ fs.ret.err = "not found"
               /\ fs.gets = all
               /\ fs.ret.body = <<>>
          ELSE /\ fs.ret.err = "nil"
               /\ fs.gets = SubSeq(all, 1, first)
               /\ fs.ret.from = all[first]
               /\ fs.ret.body = fs.answers[all[first]].data
               /\ fs.ret.size = fs.answers[all[first]].clen

\* C33 witness: two upstreams failed, one by a network error and one with
\* 404, and the body of the first query URL was returned although it does
\* not have the digest asked for
C33_Witness ==
  /\ fs.pc = "done"
  /\ fs.ret.err = "nil"
  /\ Len(fs.ups) = 2
  /\ Len(fs.gets) = 3
  /\ fs.answers[fs.gets[1]].status = 0
  /\ fs.answers[fs.gets[2]].status = 404
  /\ fs.ret.from = <<"a">>
  /\ fs.ret.body # <<>>
  /\ HexEncode(HashOf(fs.algo, fs.ret.body)) # fs.hash

====
